---- MODULE Spec2Model ----
(***************************************************************************)
(* cervmongo: the pagination engine of SyncIOClient (PAGINATED_QUERY and   *)
(* the `limit`/`perpage`/`count` branches of GET) over one collection of a *)
(* document store; the classification of GET's id_or_query by              *)
(* _process_record_id_type; MongoListResponse, the list GET returns,       *)
(* backed by a cursor or by a sequence of documents; the other branches of *)
(* GET, POST, DELETE and ADD_FIELD; and the class attributes of            *)
(* config.Config.                                                          *)
(*                                                                         *)
(* A document is a record with an "_id" (an ObjectId, modelled by its      *)
(* integer value), a field "a" that base filters select on, and possibly a *)
(* date field "created_datetime".  Boundary tokens are strings, modelled   *)
(* as sequences of one-character strings, so that encoding a token         *)
(* (str.format, ObjectId.__str__, datetime.isoformat) and decoding it      *)
(* (str.split, ObjectId(), dateutil parse) are computed character by       *)
(* character.                                                              *)
(*                                                                         *)
(* Spec and SpecCall run PAGINATED_QUERY, SpecRecord runs GET's            *)
(* classification, SpecList the methods of a cursor-backed                 *)
(* MongoListResponse, SpecSeq and SpecClose those of a sequence-backed     *)
(* one.  SpecBack pages forward and then back, SpecWrites pages forward    *)
(* while other clients write.  SpecGET runs the branches of GET, SpecTrip  *)
(* a POST, GET, DELETE round trip, SpecAddField runs ADD_FIELD and         *)
(* SpecConfig the methods of Config.                                       *)
(***************************************************************************)
EXTENDS Integers, Sequences, FiniteSets, TLC

VARIABLES
    coll,    \* the documents of the collection
    req,     \* the arguments of the last PAGINATED_QUERY call
    resp,    \* what that call returned or raised
    hist,    \* the pages (data) of the calls chained so far, oldest first
    chain,   \* "fwd": the chain began without token or page; "other" otherwise
    static,  \* no document was inserted or deleted since the chain began
    prior,   \* the page whose token the last call redeemed (<<>> if none)
    write,   \* the write other clients did since the last call returned
    wrote,   \* the write they did between the page `prior` and the last call
    passed,  \* the query mapping the caller passes, as the last call left it
    kept,    \* the documents that are in the collection since the chain began
    record,      \* the id_or_query and the `one` of the last GET(id_or_query, one=)
    classified,  \* what _process_record_id_type returned or raised for it
    lookup,      \* the `query` and `one` GET went on with
    mlr,     \* the cursor-backed MongoListResponse GET(collection) returned
    lst,     \* a sequence-backed instance that mlr.list() returned, if any
    out,     \* the last method called on mlr or lst, and what it returned
    call,    \* the last GET, POST, DELETE or ADD_FIELD call and its arguments
    ret,     \* what that call returned or raised
    trip,    \* the POST, GET, DELETE, GET(count) round trip under way
    shared,  \* the mapping that is the default of ADD_FIELD's `query`
    env,       \* os.environ
    defaults,  \* the attributes of config.Defaults
    config,    \* the attributes of config.Config
    atImport,  \* the attributes Config had once `import cervmongo` was over
    did        \* the last method of Config that was called

pagerVars == <<coll, req, resp, hist, chain, static, prior, write, wrote, passed, kept>>
classVars == <<record, classified, lookup>>
listVars == <<mlr, lst, out>>
clientVars == <<call, ret, trip, shared>>
configVars == <<env, defaults, config, atImport, did>>
vars == <<pagerVars, classVars, listVars, clientVars, configVars>>

(***************************************************************************)
(* Bounds of the model.                                                    *)
(***************************************************************************)
MaxId == 3
MaxDate == 2
MaxLimit == 2
MaxPage == 3
IdWidth == 2

Ids == 1..MaxId
Dates == 1..MaxDate
Limits == 1..MaxLimit

(***************************************************************************)
(* Optional values: Python's None and a present value.                     *)
(***************************************************************************)
None == [has |-> FALSE]
Some(x) == [has |-> TRUE, v |-> x]

(***************************************************************************)
(* Field names: the identifier field and the date field of                 *)
(* PAGINATION_SORT_FIELDS the model paginates on.                          *)
(***************************************************************************)
IdField == "_id"
DateField == "created_datetime"
PAGINATION_SORT_FIELDS == {IdField, DateField}

(***************************************************************************)
(* Documents of the collection; "created_datetime" may be missing.         *)
(***************************************************************************)
Docs ==
    [_id : Ids, a : {0, 1}, created_datetime : Dates] \cup [_id : Ids, a : {0, 1}]

\* The collections the model runs on: ids are unique, and the field "a" of a
\* document is the parity of its id, so that a base filter on "a" selects a
\* proper, non-contiguous part of the id order.
Collections ==
    {S \in SUBSET {d \in Docs : d.a = d._id % 2} : \A d, e \in S : d._id = e._id => d = e}

HasField(d, k) == k \in DOMAIN d

(***************************************************************************)
(* Characters and strings.                                                 *)
(***************************************************************************)
HexChars == <<"0", "1", "2", "3", "4", "5", "6", "7", "8", "9", "a", "b", "c", "d", "e", "f">>
DecChars == <<"0", "1", "2", "3", "4", "5", "6", "7", "8", "9">>
Sep == "_"

CharSet(chars) == {chars[i] : i \in 1..Len(chars)}

CharValue(chars, c) == (CHOOSE i \in 1..Len(chars) : chars[i] = c) - 1

\* str(ObjectId): the fixed-width lower-case hexadecimal form of the id.
RECURSIVE HexStr(_, _)
HexStr(n, w) ==
    IF w = 0 THEN <<>> ELSE HexStr(n \div 16, w - 1) \o <<HexChars[(n % 16) + 1]>>

ObjectIdStr(id) == HexStr(id, IdWidth)

\* datetime.isoformat(): dates are modelled by their year, written with four
\* decimal digits.
RECURSIVE DecStr(_, _)
DecStr(n, w) ==
    IF w = 0 THEN <<>> ELSE DecStr(n \div 10, w - 1) \o <<DecChars[(n % 10) + 1]>>

isoformat(d) == DecStr(d, 4)

\* str(None)
NoneStr == <<"N", "o", "n", "e">>

RECURSIVE StrValue(_, _, _)
StrValue(s, chars, base) ==
    IF s = <<>> THEN 0
    ELSE StrValue(SubSeq(s, 1, Len(s) - 1), chars, base) * base
         + CharValue(chars, s[Len(s)])

\* str.split(sep): the parts of s between the occurrences of sep.
RECURSIVE split(_, _)
split(s, sep) ==
    IF \A i \in 1..Len(s) : s[i] # sep THEN <<s>>
    ELSE LET i == CHOOSE j \in 1..Len(s) :
                      s[j] = sep /\ \A k \in 1..(j - 1) : s[k] # sep
         IN <<SubSeq(s, 1, i - 1)>> \o split(SubSeq(s, i + 1, Len(s)), sep)

\* bson.ObjectId(str): valid iff the string has the id width and is hexadecimal.
ObjectIdValid(s) == Len(s) = IdWidth /\ \A i \in 1..Len(s) : s[i] \in CharSet(HexChars)
ObjectIdOf(s) == StrValue(s, HexChars, 16)

\* dateutil.parser.parse(str): fails on an empty string and on a string that
\* holds anything but the digits of a date.
dateparseValid(s) == s # <<>> /\ \A i \in 1..Len(s) : s[i] \in CharSet(DecChars)
dateparse(s) == StrValue(s, DecChars, 10)

(***************************************************************************)
(* The document store: filters, range predicates, sort and limit.          *)
(***************************************************************************)
ASCENDING == 1
DESCENDING == -1

\* A BSON value with its type: comparison operators only match values of the
\* type of their operand (type bracketing).
OidValue(n) == [t |-> "oid", v |-> n]
DateValue(n) == [t |-> "date", v |-> n]
IntValue(n) == [t |-> "int", v |-> n]

FieldValue(d, k) ==
    IF k = IdField THEN OidValue(d[k])
    ELSE IF k = DateField THEN DateValue(d[k])
    ELSE IntValue(d[k])

\* {field: {op: value}}, op being "$lt" or "$gt"
Cmp(op, val) == [op |-> op, val |-> val]

MatchOp(d, k, c) ==
    /\ HasField(d, k)
    /\ FieldValue(d, k).t = c.val.t
    /\ IF c.op = "$lt" THEN FieldValue(d, k).v < c.val.v
       ELSE FieldValue(d, k).v > c.val.v

\* A mapping of fields to operator documents: every field must match.
MatchRange(d, r) == \A k \in DOMAIN r : MatchOp(d, k, r[k])

\* A mapping of fields to plain values (a base filter): equality on every field.
MatchFilter(d, f) == \A k \in DOMAIN f : HasField(d, k) /\ d[k] = f[k]

MatchOr(d, clauses) == \E i \in 1..Len(clauses) : MatchRange(d, clauses[i])

MatchAnd(d, parts) ==
    \A i \in 1..Len(parts) :
        IF "$or" \in DOMAIN parts[i] THEN MatchOr(d, parts[i]["$or"])
        ELSE MatchFilter(d, parts[i])

Matches(d, q) ==
    IF "$and" \in DOMAIN q THEN MatchAnd(d, q["$and"]) ELSE MatchFilter(d, q)

\* collection.find(query)
find(c, q) == {d \in c : Matches(d, q)}

\* The position of a document in the store's sort on `key`: a missing field
\* sorts before every date.
SortRank(d, key) ==
    IF key = IdField THEN d._id ELSE IF HasField(d, key) THEN d[key] ELSE 0

\* Mutant of First: the direction of the sort is ignored.
FirstAscending(S, key, sort) ==
    {d \in S : \A e \in S : SortRank(d, key) <= SortRank(e, key)}

First(S, key, sort) ==
    {d \in S : \A e \in S : IF sort = DESCENDING
                             THEN SortRank(e, key) <= SortRank(d, key)
                             ELSE SortRank(d, key) <= SortRank(e, key)}

\* cursor.sort([(key, sort)]).limit(n): the store sorts on `key` alone, so
\* documents with equal values of `key` come in any order.
RECURSIVE SortLimit(_, _, _, _)
SortLimit(S, key, sort, n) ==
    IF n = 0 \/ S = {} THEN {<<>>}
    ELSE UNION {{<<d>> \o r : r \in SortLimit(S \ {d}, key, sort, n - 1)} :
                d \in First(S, key, sort)}

\* cursor.sort([(key, sort)]).skip(k).limit(n)
SortSkipLimit(S, key, sort, k, n) ==
    {SubSeq(o, k + 1, IF k + n < Len(o) THEN k + n ELSE Len(o)) :
        o \in SortLimit(S, key, sort, Cardinality(S))}

(***************************************************************************)
(* SyncIOClient.GET, as PAGINATED_QUERY calls it (one collection, a        *)
(* mapping as query, no search, no distinct).                              *)
(***************************************************************************)

\* Python truthiness of a query mapping, of an optional string and of an
\* optional integer.
QueryTruthy(q) == DOMAIN q # {}
Truthy(tok) == tok.has /\ tok.v # <<>>
PageTruthy(page) == page.has /\ page.v # 0

\* Mutant of GETCount: estimated_document_count() is used whatever the query.
GETCountEstimated(c, query) == Cardinality(c)

\* GET(collection, query, count=True): `count and not limit`.
GETCount(c, query) ==
    IF QueryTruthy(query) THEN Cardinality(find(c, query)) ELSE Cardinality(c)

\* What GET reads from the parts of a token: `sort_value, _id_value =
\* token.split("_")`, `_id_value = ObjectId(_id_value)` and, when key is not
\* "_id", `sort_value = dateparse(sort_value)`.  err is the exception raised,
\* "" when none is; sort_value is None when the sort part is left unparsed.
DecodeParts(parts, key) ==
    IF Len(parts) # 2 THEN [err |-> "ValueError"]
    ELSE IF ~ObjectIdValid(parts[2]) THEN [err |-> "InvalidId"]
    ELSE IF key # IdField /\ ~dateparseValid(parts[1]) THEN [err |-> "ParserError"]
    ELSE [err |-> "",
          sort_value |-> IF key = IdField THEN None
                         ELSE Some(DateValue(dateparse(parts[1]))),
          _id_value |-> OidValue(ObjectIdOf(parts[2]))]

DecodeToken(token, key) == DecodeParts(split(token, Sep), key)

\* The "$or" group GET appends to query["$and"] for the decoded token t; op is
\* "$lt" for `after` and "$gt" for `before`.
BoundaryClause(t, key, op) ==
    IF t.err # "" THEN [err |-> t.err]
    ELSE IF key = IdField
         THEN [err |-> "", clause |-> ("$or" :> <<(key :> Cmp(op, t._id_value))>>)]
    ELSE [err |-> "",
          clause |-> ("$or" :>
              << (key :> Cmp(op, t._id_value)),
                 ((key :> Cmp(op, t.sort_value.v)) @@ (IdField :> Cmp(op, t._id_value))) >>)]

Boundary(token, key, op) == BoundaryClause(DecodeToken(token, key), key, op)

\* query["$and"] with the boundary b appended, or the exception b carries.
Bounded(query, b) ==
    IF b.err # "" THEN [err |-> b.err]
    ELSE [err |-> "", query |-> ("$and" :> <<query, b.clause>>)]

\* Mutant of GETLimitQuery: a token that fails to decode is dropped and the
\* query runs without it.
GETLimitQuerySwallow(query, key, after, before) ==
    IF (Truthy(after) /\ DecodeToken(after.v, key).err = "")
    THEN Bounded(query, Boundary(after.v, key, "$lt"))
    ELSE IF (~Truthy(after) /\ Truthy(before) /\ DecodeToken(before.v, key).err = "")
    THEN Bounded(query, Boundary(before.v, key, "$gt"))
    ELSE [err |-> "", query |-> query]

\* The query of the `elif limit:` branch of GET: `after` is applied when it is
\* given, `before` otherwise.
GETLimitQuery(query, key, after, before) ==
    IF Truthy(after) \/ Truthy(before)
    THEN Bounded(query, Boundary(IF Truthy(after) THEN after.v ELSE before.v, key,
                                 IF Truthy(after) THEN "$lt" ELSE "$gt"))
    ELSE IF QueryTruthy(query) THEN [err |-> "", query |-> ("$and" :> <<query>>)]
    ELSE [err |-> "", query |-> query]

\* cursor = collection.find(query).sort([(key, sort)]).limit(limit), for the
\* query g that GET composed.
LimitResults(c, g, key, sort, limit) ==
    IF g.err # "" THEN [err |-> g.err]
    ELSE [err |-> "", results |-> SortLimit(find(c, g.query), key, sort, limit)]

\* GET(collection, query, limit=limit, key=key, after=, before=, sort=sort).list()
GETLimit(c, query, key, sort, limit, after, before) ==
    LimitResults(c, GETLimitQuery(query, key, after, before), key, sort, limit)

Min(x, y) == IF x < y THEN x ELSE y

\* The count of the query g that GET composed, at most limit.
LimitCount(c, g, limit) ==
    IF g.err # "" THEN [err |-> g.err]
    ELSE [err |-> "", count |-> Min(Cardinality(find(c, g.query)), limit)]

\* GET(collection, query, limit=limit, key=key, after=, before=, count=True)
GETLimitCount(c, query, key, limit, after, before) ==
    LimitCount(c, GETLimitQuery(query, key, after, before), limit)

\* GET(collection, query, perpage=perpage, key=key, page=page, sort=sort).list()
GETPerPage(c, query, key, sort, page, perpage) ==
    SortSkipLimit(find(c, query), key, sort, (page - 1) * perpage, perpage)

(***************************************************************************)
(* SyncIOClient.PAGINATED_QUERY                                            *)
(***************************************************************************)

\* Mutant of Token: the templates put the identifier before the separator.
TokenSwapped(sort, d) ==
    IF sort = IdField THEN ObjectIdStr(d._id) \o <<Sep>>
    ELSE ObjectIdStr(d._id) \o <<Sep>>
         \o (IF HasField(d, sort) THEN isoformat(d[sort]) ELSE NoneStr)

\* template.format(_id=_id, date=date) for document d: "_{_id}" when the sort
\* field is the identifier, "{date}_{_id}" otherwise, date being
\* d[sort].isoformat(), or None when that raises.
Token(sort, d) ==
    IF sort = IdField THEN <<Sep>> \o ObjectIdStr(d._id)
    ELSE (IF HasField(d, sort) THEN isoformat(d[sort]) ELSE NoneStr)
         \o <<Sep>> \o ObjectIdStr(d._id)

Raised(e) == [status |-> "error", error |-> e]

Ok(r) == r.status = "ok"

\* response["details"]["cursors"]
Cursors(rq, method, total_docs, new_after, new_before) ==
    IF method \in {"cursor", "time"}
    THEN [after |-> new_after, before |-> new_before]
    ELSE [prev_page |-> IF rq.page.v > 1 THEN Some(rq.page.v - 1) ELSE None,
          next_page |-> IF rq.page.v * rq.limit <= total_docs
                        THEN Some(rq.page.v + 1) ELSE None]

\* before_url_template / after_url_template, formatted.
Url(rq, method, param, token) ==
    IF method \in {"cursor", "time"}
    THEN [sort |-> rq.sort, limit |-> rq.limit, param |-> param, token |-> token.v]
    ELSE [sort |-> rq.sort, limit |-> rq.limit, param |-> "page", page |-> rq.page.v]

\* Mutant of NewAfter: the token is made of the first document of the page.
NewAfterOfFirst(rq, results) ==
    IF Len(results) > 0 /\ Len(results) = rq.limit
    THEN Some(Token(rq.sort, results[1])) ELSE None

\* The candidate tokens (lines 266-281): `after` from the last document of a
\* full page, `before` from the first document when a token was passed.
NewAfter(rq, results) ==
    IF Len(results) > 0 /\ Len(results) = rq.limit
    THEN Some(Token(rq.sort, results[Len(results)])) ELSE None

NewBefore(rq, results) ==
    IF Len(results) > 0 /\ (Truthy(rq.after) \/ Truthy(rq.before))
    THEN Some(Token(rq.sort, results[1])) ELSE None

\* Which candidate the lookahead checks (lines 283-293): `before` when a
\* before token was passed, else `after` when an after token was passed.
ChecksBefore(rq, method, results) ==
    Len(results) > 0 /\ method \in {"cursor", "time"} /\ Truthy(rq.before)

ChecksAfter(rq, method, results) ==
    /\ Len(results) > 0
    /\ method \in {"cursor", "time"}
    /\ ~Truthy(rq.before)
    /\ Truthy(rq.after)

\* check_ahead = GET(collection, query, limit=limit, key=sort, before= or
\* after= the candidate, count=True); a count of 1 stands for no lookahead.
CheckAhead(c, rq, method, results) ==
    IF ChecksBefore(rq, method, results) \/ ChecksAfter(rq, method, results)
    THEN GETLimitCount(c, rq.query, rq.sort, rq.limit,
             IF ChecksAfter(rq, method, results) THEN NewAfter(rq, results) ELSE None,
             IF ChecksBefore(rq, method, results) THEN NewBefore(rq, results) ELSE None)
    ELSE [err |-> "", count |-> 1]

\* Lines 297-350: the response, given the candidates and the lookahead.
Response(rq, method, total_docs, results, new_after, new_before) ==
    [status |-> "ok",
     data |-> results,
     pagination_method |-> method,
     sort |-> rq.sort,
     total |-> total_docs,
     count |-> Len(results),
     limit |-> rq.limit,
     cursors |-> Cursors(rq, method, total_docs, new_after, new_before),
     previous |-> IF Truthy(new_before)
                  THEN Some(Url(rq, method, "before", new_before)) ELSE None,
     next |-> IF Truthy(new_after)
              THEN Some(Url(rq, method, "after", new_after)) ELSE None]

\* The lookahead's outcome applied: a candidate whose count is zero is dropped.
Checked(rq, method, total_docs, results, check_ahead) ==
    IF check_ahead.err # "" THEN Raised(check_ahead.err)
    ELSE Response(rq, method, total_docs, results,
             IF ChecksAfter(rq, method, results) /\ check_ahead.count = 0
             THEN None ELSE NewAfter(rq, results),
             IF ChecksBefore(rq, method, results) /\ check_ahead.count = 0
             THEN None ELSE NewBefore(rq, results))

\* Lines 257-350: the tokens, the lookahead and the response, given the page.
Respond(c, rq, method, total_docs, results) ==
    Checked(rq, method, total_docs, results, CheckAhead(c, rq, method, results))

\* Lines 241-255: the pagination method and the page of results, with
\* ordering = -1, its default.
Method(rq) ==
    IF PageTruthy(rq.page) THEN "offset"
    ELSE IF rq.sort = IdField THEN "cursor" ELSE "time"

Fetch(c, rq) ==
    IF ~PageTruthy(rq.page)
    THEN GETLimit(c, rq.query, rq.sort, DESCENDING, rq.limit, rq.after, rq.before)
    ELSE IF ~(rq.page.v >= 1) THEN [err |-> "AssertionError"]
    ELSE [err |-> "",
          results |-> GETPerPage(c, rq.query, rq.sort, DESCENDING, rq.page.v, rq.limit)]

Responses(c, rq, total_docs, got) ==
    IF got.err # "" THEN {Raised(got.err)}
    ELSE {Respond(c, rq, Method(rq), total_docs, results) : results \in got.results}

\* The responses PAGINATED_QUERY can give to request rq on collection c: one
\* for each order in which the store can return documents with equal sort
\* values.
PAGINATED_QUERY(c, rq) == Responses(c, rq, GETCount(c, rq.query), Fetch(c, rq))

(***************************************************************************)
(* SyncIOClient.GET with its keyword arguments, for one collection, a      *)
(* mapping without markers as id_or_query and no search.  `a` holds the    *)
(* arguments; count=None, limit=None, perpage=False, distinct=None are the *)
(* falsy values FALSE, None, 0 and None.                                   *)
(***************************************************************************)
\* What GET returns: a number, the values of cursor.distinct, the documents
\* a MongoListResponse holds in the cursor's order, or the one document of
\* find_one (`empty` when there is none).
Number(n) == [status |-> "ok", kind |-> "count", n |-> n]
Values(V) == [status |-> "ok", kind |-> "distinct", values |-> V]
Listed(items) == [status |-> "ok", kind |-> "list", items |-> items]
One(S) == [status |-> "ok", kind |-> "one", doc |-> IF S = <<>> THEN None ELSE Some(S[1])]

\* collection.find(query).sort([(key, sort)]).distinct(distinct)
GETDistinct(c, query, field) == {d[field] : d \in {e \in find(c, query) : HasField(e, field)}}

\* The `elif limit:` branch, with count and without.
GETByLimit(c, a) ==
    IF a.count
    THEN LET n == GETLimitCount(c, a.query, a.key, a.limit.v, a.after, a.before)
         IN  IF n.err # "" THEN {Raised(n.err)} ELSE {Number(n.count)}
    ELSE LET l == GETLimit(c, a.query, a.key, a.sort, a.limit.v, a.after, a.before)
         IN  IF l.err # "" THEN {Raised(l.err)} ELSE {Listed(r) : r \in l.results}

\* The `elif perpage:` branch: `total = (page - 1) * perpage` raises when
\* page is None.
GETByPage(c, a) ==
    IF ~a.page.has THEN {Raised("TypeError")}
    ELSE {Listed(r) : r \in GETPerPage(c, a.query, a.key, a.sort, a.page.v, a.perpage)}

\* Lines 555-608, in the order of the branches.
GET(c, a) ==
    IF a.count /\ ~a.limit.has THEN {Number(GETCount(c, a.query))}
    ELSE IF a.distinct.has THEN {Values(GETDistinct(c, a.query, a.distinct.v))}
    ELSE IF a.perpage # 0 THEN GETByPage(c, a)
    ELSE IF a.limit.has THEN GETByLimit(c, a)
    ELSE IF a.one THEN {One(r) : r \in SortLimit(find(c, a.query), a.key, a.sort, 1)}
    ELSE {Listed(r) : r \in SortLimit(find(c, a.query), a.key, a.sort, Cardinality(c))}

\* GET called with id_or_query and keyword arguments alone: the defaults of
\* the signature.
GETDefaults ==
    [query |-> [k \in {} |-> 0], key |-> IdField, sort |-> ASCENDING, count |-> FALSE,
     distinct |-> None, one |-> FALSE, page |-> None, perpage |-> 0, limit |-> None,
     after |-> None, before |-> None]

(***************************************************************************)
(* AsyncIOClient.PAGINATED_QUERY: the statements of the blocking variant,  *)
(* awaited; GET counts a limited query with count_documents and the page   *)
(* is read from the cursor by `[record async for record in cursor]`.       *)
(***************************************************************************)
\* await collection.count_documents(query, limit=limit, hint=[(key, sort)]):
\* the matching documents are counted up to limit.  (When the store rejects
\* the hint, len(find(query).sort().to_list(limit)) gives the same number.)
aio_LimitCount(c, g, limit) ==
    IF g.err # "" THEN [err |-> g.err]
    ELSE [err |-> "",
          count |-> IF Cardinality(find(c, g.query)) > limit
                    THEN limit ELSE Cardinality(find(c, g.query))]

aio_CheckAhead(c, rq, method, results) ==
    IF ChecksBefore(rq, method, results) \/ ChecksAfter(rq, method, results)
    THEN aio_LimitCount(c,
             GETLimitQuery(rq.query, rq.sort,
                 IF ChecksAfter(rq, method, results) THEN NewAfter(rq, results) ELSE None,
                 IF ChecksBefore(rq, method, results) THEN NewBefore(rq, results) ELSE None),
             rq.limit)
    ELSE [err |-> "", count |-> 1]

aio_Responses(c, rq, total_docs, got) ==
    IF got.err # "" THEN {Raised(got.err)}
    ELSE {Checked(rq, Method(rq), total_docs, results,
                  aio_CheckAhead(c, rq, Method(rq), results)) : results \in got.results}

aio_PAGINATED_QUERY(c, rq) == aio_Responses(c, rq, GETCount(c, rq.query), Fetch(c, rq))

(***************************************************************************)
(* The query mapping the caller passes (for a caller that passes none, the *)
(* default `{}` of the signature, one mapping shared by all calls).  GET   *)
(* receives a reference to it; the definitions below follow what the       *)
(* caller's mapping holds once the call is over.                           *)
(***************************************************************************)

\* Mutant of QueryObjects: the "$and" list and the boundary are put into the
\* caller's mapping itself instead of into a new one.
QueryObjectsInPlace(query, composed, rebound) ==
    [caller |-> composed, local |-> composed]

\* The two mappings at the end of the `elif limit:` branch: the caller's and
\* the one the local name `query` refers to.  When `query = {"$and": [query]}`
\* ran, the name was rebound to a new mapping and the boundary was appended
\* to that one; otherwise both names refer to one mapping.
QueryObjects(query, composed, rebound) ==
    [caller |-> IF rebound THEN query ELSE composed, local |-> composed]

\* The caller's mapping after GET composed g from it (an exception leaves it
\* as it was: it is raised before anything is appended).
CallerOf(query, g, after, before) ==
    IF g.err # "" THEN query
    ELSE QueryObjects(query, g.query,
             QueryTruthy(query) \/ Truthy(after) \/ Truthy(before)).caller

\* The caller's mapping after GET(collection, query, limit=, key=, after=,
\* before=).
GETLimitCaller(query, key, after, before) ==
    CallerOf(query, GETLimitQuery(query, key, after, before), after, before)

\* The caller's mapping after the lookahead of a page r, when one is made.
LookaheadCaller(query, rq, r) ==
    IF Ok(r) /\ (ChecksBefore(rq, r.pagination_method, r.data)
                 \/ ChecksAfter(rq, r.pagination_method, r.data))
    THEN GETLimitCaller(query, rq.sort,
             IF ChecksAfter(rq, r.pagination_method, r.data)
             THEN NewAfter(rq, r.data) ELSE None,
             IF ChecksBefore(rq, r.pagination_method, r.data)
             THEN NewBefore(rq, r.data) ELSE None)
    ELSE query

\* The caller's mapping after PAGINATED_QUERY answered rq with r: the count
\* and the `perpage` branch of GET build nothing from the query; the `limit`
\* branch runs for the page and again for the lookahead.
PassedAfter(rq, r) ==
    LookaheadCaller(IF PageTruthy(rq.page) THEN rq.query
                    ELSE GETLimitCaller(rq.query, rq.sort, rq.after, rq.before),
                    rq, r)

(***************************************************************************)
(* Python values GET receives as id_or_query: an ObjectId, a string, an    *)
(* integer, a mapping or a list, and the compiled pattern json_load makes  *)
(* of a "$regex" document.                                                 *)
(***************************************************************************)
PyObjectId(i) == [oid |-> i]
PyStr(s) == [str |-> s]
PyInt(n) == [int |-> n]
PyDict(m) == [dict |-> m]
PyList(l) == [list |-> l]
PyRegex(p) == [regex |-> p]

IsStr(v) == DOMAIN v = {"str"}
IsObjectId(v) == DOMAIN v = {"oid"}
IsDict(v) == DOMAIN v = {"dict"}

Quote == "\""
OidKey == <<"$", "o", "i", "d">>
RegexKey == <<"$", "r", "e", "g", "e", "x">>

\* `sub in s` for strings.
Contains(s, sub) ==
    \E i \in 0..(Len(s) - Len(sub)) : SubSeq(s, i + 1, i + Len(sub)) = sub

StartsWith(s, pre) == Len(s) >= Len(pre) /\ SubSeq(s, 1, Len(pre)) = pre

Drop(s, n) == SubSeq(s, n + 1, Len(s))

\* json_util.dumps of a mapping of one key to a string value.
json_dump(key, value) ==
    <<"{", Quote>> \o key \o <<Quote, ":", " ", Quote>> \o value \o <<Quote, "}">>

\* The text of a JSON object of one key `key`, after `{"key":` and optional
\* blank: a quoted string and the closing brace.
IsQuotedTail(t) ==
    /\ Len(t) >= 3
    /\ t[1] = Quote
    /\ t[Len(t) - 1] = Quote
    /\ t[Len(t)] = "}"
    /\ \A i \in 2..(Len(t) - 2) : t[i] # Quote

ValuePart(s, key) ==
    IF StartsWith(Drop(s, Len(key) + 4), <<" ">>)
    THEN Drop(s, Len(key) + 5) ELSE Drop(s, Len(key) + 4)

IsObjectOf(s, key) ==
    /\ StartsWith(s, <<"{", Quote>> \o key \o <<Quote, ":">>)
    /\ IsQuotedTail(ValuePart(s, key))

StringOf(s, key) == SubSeq(ValuePart(s, key), 2, Len(ValuePart(s, key)) - 2)

\* json_util.loads, on the texts the model passes: {"$oid": "<id>"} gives the
\* ObjectId or raises InvalidId, {"$regex": "<pattern>"} gives the pattern,
\* and a text that is no JSON document raises JSONDecodeError.
json_load(s) ==
    IF IsObjectOf(s, OidKey)
    THEN IF ObjectIdValid(StringOf(s, OidKey))
         THEN [err |-> "", v |-> PyObjectId(ObjectIdOf(StringOf(s, OidKey)))]
         ELSE [err |-> "InvalidId"]
    ELSE IF IsObjectOf(s, RegexKey)
    THEN [err |-> "", v |-> PyRegex(StringOf(s, RegexKey))]
    ELSE [err |-> "JSONDecodeError"]

(***************************************************************************)
(* SyncIOClient._process_record_id_type and its use by GET                 *)
(***************************************************************************)
Classified(rec, one) == [status |-> "ok", record |-> rec, one |-> one]

\* record = {"$in": [json_load(record), record]}
InBoth(loaded, rec) ==
    IF loaded.err # "" THEN Raised(loaded.err)
    ELSE Classified(PyDict("$in" :> PyList(<<loaded.v, rec>>)), TRUE)

\* record = json_load(json_dump(record))
Reloaded(loaded) ==
    IF loaded.err # "" THEN Raised(loaded.err)
    ELSE Classified(loaded.v, TRUE)

\* Mutant of HasMarker: only "$oid" is looked for.
HasMarkerOidOnly(keys) == "$oid" \in keys

\* any(["$oid" in keys, "$regex" in keys])
HasMarker(keys) == "$oid" \in keys \/ "$regex" \in keys

\* The one marker of a mapping, and its text.
MarkerKey(m) == IF "$oid" \in DOMAIN m THEN OidKey ELSE RegexKey
MarkerText(m) == IF "$oid" \in DOMAIN m THEN m["$oid"].str ELSE m["$regex"].str

process_record_id_type(rec) ==
    IF IsStr(rec)
    THEN IF Contains(rec.str, OidKey) THEN InBoth(json_load(rec.str), rec)
         ELSE IF ObjectIdValid(rec.str)
         THEN Classified(PyDict("$in" :> PyList(<<PyObjectId(ObjectIdOf(rec.str)), rec>>)), TRUE)
         ELSE Classified(rec, TRUE)
    ELSE IF IsObjectId(rec) THEN Classified(rec, TRUE)
    ELSE IF IsDict(rec) /\ HasMarker(DOMAIN rec.dict)
    THEN Reloaded(json_load(json_dump(MarkerKey(rec.dict), MarkerText(rec.dict))))
    ELSE Classified(rec, FALSE)

\* AsyncIOClient._process_record_id_type: a string that reads as an id, or
\* that holds "$oid", becomes the identifier itself.
aio_process_record_id_type(rec) ==
    IF IsStr(rec)
    THEN IF Contains(rec.str, OidKey) THEN Reloaded(json_load(rec.str))
         ELSE IF ObjectIdValid(rec.str)
         THEN Classified(PyObjectId(ObjectIdOf(rec.str)), TRUE)
         ELSE Classified(rec, TRUE)
    ELSE IF IsObjectId(rec) THEN Classified(rec, TRUE)
    ELSE IF IsDict(rec) /\ ("$oid" \in DOMAIN rec.dict \/ "$regex" \in DOMAIN rec.dict)
    THEN Reloaded(json_load(json_dump(MarkerKey(rec.dict), MarkerText(rec.dict))))
    ELSE Classified(rec, FALSE)

\* GET, lines 546-551: `one = _one if _one else one`, and the query is
\* {"_id": id_or_query} for a single entity, id_or_query itself otherwise.
GETLookup(c, one) ==
    IF c.status # "ok" THEN c
    ELSE [status |-> "ok",
          one |-> IF c.one THEN c.one ELSE one,
          query |-> IF c.one THEN PyDict("_id" :> c.record) ELSE c.record]

(***************************************************************************)
(* SyncIOClient.POST and SyncIOClient.DELETE of one document, and          *)
(* COLLECTION, whose CollectionClient passes its collection to them.       *)
(***************************************************************************)
Inserted(id) == [status |-> "ok", kind |-> "inserted", id |-> id]
Deleted(d) == [status |-> "ok", kind |-> "deleted", doc |-> d]

\* collection.insert_one(record) for a mapping without "_id": the driver
\* puts a new ObjectId, one no document of the collection holds, into the
\* mapping and the store keeps the document.
insert_one(c, rec) ==
    {[coll |-> c \cup {[k \in DOMAIN rec \cup {IdField} |->
                             IF k = IdField THEN i ELSE rec[k]]},
      ret |-> Inserted(i)] : i \in {j \in Ids : \A d \in c : d._id # j}}

\* POST(collection, record) for a mapping
POST(c, rec) == insert_one(c, rec)

\* Mutant of find_one_and_delete: the document is returned and kept.
find_one_and_keep(c, q) ==
    IF find(c, q) = {} THEN {[coll |-> c, doc |-> None]}
    ELSE {[coll |-> c, doc |-> Some(d)] : d \in find(c, q)}

\* collection.find_one_and_delete(query): one matching document is removed
\* and returned, None when none matches.
find_one_and_delete(c, q) ==
    IF find(c, q) = {} THEN {[coll |-> c, doc |-> None]}
    ELSE {[coll |-> c \ {d}, doc |-> Some(d)] : d \in find(c, q)}

\* MongoDictResponse(data_record): dict(None) raises TypeError.
DeletedResponse(r) ==
    [coll |-> r.coll, ret |-> IF r.doc.has THEN Deleted(r.doc.v) ELSE Raised("TypeError")]

\* DELETE(collection, record) with soft=False, for an identifier or a
\* string: the classified record is looked up as "_id" unless the
\* classification made a mapping of it, which the store rejects for its
\* top-level "$in".
DELETE(c, rec) ==
    IF process_record_id_type(rec).status # "ok"
    THEN {[coll |-> c, ret |-> process_record_id_type(rec)]}
    ELSE IF IsObjectId(process_record_id_type(rec).record)
    THEN {DeletedResponse(r) :
            r \in find_one_and_delete(c, [_id |-> process_record_id_type(rec).record.oid])}
    ELSE IF IsStr(process_record_id_type(rec).record)
    THEN {[coll |-> c, ret |-> Raised("TypeError")]}
    ELSE {[coll |-> c, ret |-> Raised("OperationFailure")]}

\* COLLECTION(collection): GET, POST and DELETE of the CollectionClient are
\* partial(self.GET, collection), ... on the one collection c.
COLLECTION(c) == c

(***************************************************************************)
(* MongoListResponse: the list GET returns, backed by a cursor on the      *)
(* collection or by a sequence of documents.  Documents here hold a        *)
(* top-level "b", or an embedded document "a" that holds a "b".            *)
(***************************************************************************)
Dot == "."
KeyChars == [_id |-> <<"_", "i", "d">>, a |-> <<"a">>, b |-> <<"b">>]

\* Each _id comes with "b" at the top level or with "a.b"; the values of
\* "a.b" repeat among the documents.
ListDocs ==
    {[_id |-> i, b |-> 1] : i \in Ids}
    \cup {[_id |-> i, a |-> [b |-> (i % 2) + 1]] : i \in Ids}

ListCollections ==
    {S \in SUBSET ListDocs : \A d, e \in S : d._id = e._id => d = e}

\* `name in item` and `item[name]`, for a mapping and a key given as text.
HasKey(item, name) == \E k \in DOMAIN item : KeyChars[k] = name
GetKey(item, name) == item[CHOOSE k \in DOMAIN item : KeyChars[k] = name]

\* str.isdigit()
isdigit(name) == name # <<>> /\ \A i \in 1..Len(name) : name[i] \in CharSet(DecChars)

\* utils.sort_list, after `fields = field.split(".")`: the value at the path,
\* None when a key is missing; item[int(field)] raises on a mapping, which
\* the function turns into None.
RECURSIVE sort_list_fields(_, _)
sort_list_fields(item, fields) ==
    IF isdigit(fields[1]) THEN None
    ELSE IF ~HasKey(item, fields[1]) THEN None
    ELSE IF Len(fields) = 1 THEN Some(GetKey(item, fields[1]))
    ELSE sort_list_fields(GetKey(item, fields[1]), Tail(fields))

sort_list(item, field) == sort_list_fields(item, split(field, Dot))

\* The value the store finds at a dotted path of a document, if any.
RECURSIVE PathValue(_, _)
PathValue(d, fields) ==
    IF ~HasKey(d, fields[1]) THEN None
    ELSE IF Len(fields) = 1 THEN Some(GetKey(d, fields[1]))
    ELSE PathValue(GetKey(d, fields[1]), Tail(fields))

\* The place of a document in the store's sort on a path: a missing field
\* sorts before every value.
StoreRank(d, field) ==
    IF PathValue(d, split(field, Dot)).has THEN PathValue(d, split(field, Dot)).v ELSE 0

StoreFirst(S, field, dir) ==
    {d \in S : \A e \in S : IF dir = DESCENDING
                             THEN StoreRank(e, field) <= StoreRank(d, field)
                             ELSE StoreRank(d, field) <= StoreRank(e, field)}

\* The orders in which a cursor find({}).sort([(field, dir)]) can return the
\* documents of S.
RECURSIVE CursorOrders(_, _, _)
CursorOrders(S, field, dir) ==
    IF S = {} THEN {<<>>}
    ELSE UNION {{<<d>> \o r : r \in CursorOrders(S \ {d}, field, dir)} :
                d \in StoreFirst(S, field, dir)}

\* Cursor.distinct(field): the values at the path, each once.
StoreDistinct(S, field) ==
    {PathValue(d, split(field, Dot)).v : d \in {e \in S : PathValue(e, split(field, Dot)).has}}

\* sorted(values, reverse=reverse), for a list of integers.
RECURSIVE sorted(_, _)
sorted(l, reverse) ==
    IF l = <<>> THEN <<>>
    ELSE LET i == CHOOSE j \in 1..Len(l) : \A k \in 1..Len(l) :
                      IF reverse THEN l[k] <= l[j] ELSE l[j] <= l[k]
         IN <<l[i]>> \o sorted(SubSeq(l, 1, i - 1) \o SubSeq(l, i + 1, Len(l)), reverse)

\* list(values), for a set of integers (any order: it is sorted next).
RECURSIVE listOf(_)
listOf(V) ==
    IF V = {} THEN <<>>
    ELSE LET x == CHOOSE y \in V : TRUE IN <<x>> \o listOf(V \ {x})

\* The inner loop of distinct over the parts of a dotted field, for one
\* item: `continue` goes on with the next part and the same item, and only
\* the last part adds a value.
RECURSIVE Walk(_, _)
Walk(item, fields) ==
    IF Len(fields) = 1
    THEN IF ~isdigit(fields[1]) /\ HasKey(item, fields[1])
         THEN {GetKey(item, fields[1])} ELSE {}
    ELSE IF ~isdigit(fields[1]) /\ HasKey(item, fields[1])
         THEN Walk(GetKey(item, fields[1]), Tail(fields))
         ELSE Walk(item, Tail(fields))

\* [item[field] for item in self if field in item]
RECURSIVE Comprehension(_, _)
Comprehension(items, field) ==
    IF items = <<>> THEN <<>>
    ELSE (IF HasKey(Head(items), field) THEN <<GetKey(Head(items), field)>> ELSE <<>>)
         \o Comprehension(Tail(items), field)

\* utils.flatten_dict of a document, as the set of its (key, value) pairs:
\* the keys of an embedded mapping are joined to its key with a dot.  (In
\* these documents "a" is the one key that holds a mapping.)
flatten_dict(d) ==
    {<<KeyChars[k], d[k]>> : k \in DOMAIN d \ {"a"}}
    \cup UNION {{<<KeyChars[k] \o <<Dot>> \o KeyChars[j], d[k][j]>> : j \in DOMAIN d[k]} :
                    k \in DOMAIN d \cap {"a"}}

\* An instance: `_cursor` set or not, `_sort`, the list's own documents, and
\* for the cursor its sort, the number of documents retrieved from it and
\* whether it has been closed.
Instance(cursor, items) ==
    [_cursor |-> cursor, _sort |-> ASCENDING, items |-> items,
     ordering |-> [key |-> KeyChars["_id"], dir |-> ASCENDING], pos |-> 0,
     killed |-> FALSE]

\* MongoListResponse.rewind / Cursor.rewind: the cursor starts over, open.
rewind(self) == IF self._cursor THEN [self EXCEPT !.pos = 0, !.killed = FALSE] ELSE self

\* Mutant of close: the sequence is left as it is.
closeKeepsItems(self) ==
    IF self._cursor THEN [self EXCEPT !.killed = TRUE] ELSE self

\* MongoListResponse.close: Cursor.close() on the cursor, list.clear() on
\* the sequence; `_cursor` is not assigned.
close(self) ==
    IF self._cursor THEN [self EXCEPT !.killed = TRUE] ELSE [self EXCEPT !.items = <<>>]

\* MongoListResponse.count
count(self, S) == IF self._cursor THEN Cardinality(S) ELSE Len(self.items)

\* MongoListResponse.distinct
distinct(self, S, field) ==
    IF self._cursor
    THEN sorted(listOf(StoreDistinct(S, field)), self._sort = -1)
    ELSE IF Contains(field, <<Dot>>)
    THEN sorted(listOf(UNION {Walk(self.items[i], split(field, Dot)) :
                                  i \in 1..Len(self.items)}), self._sort = -1)
    ELSE sorted(Comprehension(self.items, field), self._sort = -1)

\* list.sort compares the keys sort_list(item, key) of the documents.
\* Comparing None with anything raises TypeError; a list of one document is
\* sorted without a comparison.
SortRaises(items, key) ==
    Len(items) >= 2 /\ \E i \in 1..Len(items) : ~sort_list(items[i], key).has

\* list.sort(key=, reverse=) where every key is an integer: stable in both
\* directions, documents of equal key keep their order.
RECURSIVE StableSort(_, _, _)
StableSort(items, key, reverse) ==
    IF items = <<>> THEN <<>>
    ELSE LET rest == StableSort(SubSeq(items, 1, Len(items) - 1), key, reverse)
             x == sort_list(items[Len(items)], key).v
             n == Cardinality({i \in 1..Len(rest) :
                      IF reverse THEN sort_list(rest[i], key).v >= x
                      ELSE sort_list(rest[i], key).v <= x})
         IN SubSeq(rest, 1, n) \o <<items[Len(items)]>> \o SubSeq(rest, n + 1, Len(rest))

\* The orders a list can be left in: those of the same documents.
Reorderings(items) ==
    {p \in [1..Len(items) -> {items[i] : i \in 1..Len(items)}] :
        \A i \in 1..Len(items) : \E j \in 1..Len(items) : p[j] = items[i]}

\* MongoListResponse.sort: the instance after the call and the exception
\* raised, if any.  A sort that raises leaves the list partially sorted.
ListSort(self, dir, key) ==
    IF self._cursor
    THEN {[self |-> [self EXCEPT !._sort = dir, !.pos = 0, !.killed = FALSE,
                                 !.ordering = [key |-> key, dir |-> dir]],
           err |-> ""]}
    ELSE IF SortRaises(self.items, key)
    THEN {[self |-> [self EXCEPT !._sort = dir, !.items = p], err |-> "TypeError"] :
             p \in Reorderings(self.items)}
    ELSE {[self |-> [self EXCEPT !._sort = dir,
                                 !.items = StableSort(self.items, key, dir = DESCENDING)],
           err |-> ""]}

\* Mutant of ListList: the cursor is read from where it stands.
ListListNoRewind(self, S) ==
    IF self._cursor
    THEN {[self |-> [self EXCEPT !.pos = Len(o)],
           made |-> Instance(FALSE, SubSeq(o, self.pos + 1, Len(o)))] :
             o \in CursorOrders(S, self.ordering.key, self.ordering.dir)}
    ELSE {[self |-> self, made |-> self]}

\* MongoListResponse.list: the cursor is rewound and read to its end into a
\* new instance; a sequence-backed instance returns itself.
ListList(self, S) ==
    IF self._cursor
    THEN {[self |-> [self EXCEPT !.pos = Len(o), !.killed = FALSE],
           made |-> Instance(FALSE, o)] :
             o \in CursorOrders(S, self.ordering.key, self.ordering.dir)}
    ELSE {[self |-> self, made |-> self]}

(***************************************************************************)
(* SyncIOClient.ADD_FIELD.  A query here maps a field to {"$exists": b}    *)
(* or to a value it must equal.                                            *)
(***************************************************************************)
Exists(b) == [exists |-> b]
Equals(v) == [eq |-> v]

\* collection.find(query) for such a query
findWhere(c, q) ==
    {d \in c : \A k \in DOMAIN q :
        IF DOMAIN q[k] = {"exists"} THEN HasField(d, k) = q[k].exists
        ELSE HasField(d, k) /\ d[k] = q[k].eq}

\* query.update({field: {"$exists": False}}): the mapping itself changes.
WithExists(query, field) ==
    [k \in DOMAIN query \cup {field} |-> IF k = field THEN Exists(FALSE) ELSE query[k]]

\* records = self.GET(collection, query, fields=..., empty=[]): GET goes to
\* its last branch and returns MongoListResponse(cursor), whose own list
\* holds nothing: __init__ keeps the cursor and puts no document in it.
ADD_FIELD_GET(c, query) == Instance(TRUE, <<>>)

\* PATCH(collection, _id, {"$set": {field: v}}): update_one on {"_id": _id}
PATCH(c, id, field, v) ==
    {IF d._id = id
     THEN [k \in DOMAIN d \cup {field} |-> IF k = field THEN v ELSE d[k]]
     ELSE d : d \in c}

\* `for record in records:` takes the documents of the list itself, one
\* PATCH each; record[data] raises KeyError when the record lacks `data`.
RECURSIVE PatchEach(_, _, _, _, _)
PatchEach(c, items, field, value, data) ==
    IF items = <<>> THEN [coll |-> c, err |-> ""]
    ELSE IF data.has /\ ~HasField(Head(items), data.v) THEN [coll |-> c, err |-> "KeyError"]
    ELSE PatchEach(PATCH(c, Head(items)._id, field,
                         IF data.has THEN Head(items)[data.v] ELSE value),
                   Tail(items), field, value, data)

\* ADD_FIELD(collection, field, value, data, query): the collection and the
\* query mapping it leaves.
ADD_FIELD(c, field, value, data, query) ==
    [query |-> WithExists(query, field),
     done |-> PatchEach(c, ADD_FIELD_GET(c, WithExists(query, field)).items,
                        field, value, data)]

(***************************************************************************)
(* config.py: the class Defaults, read from the environment when the       *)
(* module is imported, and the class Config.  A connection string is kept  *)
(* as the sequence of the parts its f-string joins.                        *)
(***************************************************************************)
NoEnv == [k \in {} |-> ""]

\* os.getenv(name, default), for a variable kept as text
getenv(e, name, default) == IF name \in DOMAIN e THEN e[name] ELSE default

\* os.getenv(name, None) / os.getenv(name, current), where None is possible
getenvOptional(e, name, default) == IF name \in DOMAIN e THEN Some(e[name]) ELSE default

\* int(os.getenv("MONGO_PORT", default))
getenvPort(e, default) ==
    IF "MONGO_PORT" \in DOMAIN e THEN StrValue(e["MONGO_PORT"], DecChars, 10) ELSE default

\* class Defaults (lines 45-57)
Defaults(e) ==
    [MONGO_DB |-> getenvOptional(e, "MONGO_DB", None),
     MONGO_HOST |-> getenv(e, "MONGO_HOST", "127.0.0.1"),
     MONGO_PORT |-> getenvPort(e, 27017),
     MONGO_REPLICA_SET |-> getenvOptional(e, "MONGO_REPLICA_SET", None),
     MONGO_URI |-> getenvOptional(e, "MONGO_URI", None)]

\* f"{value}" of a setting that may be None
Formatted(o) == IF o.has THEN o.v ELSE "None"

\* Config.generate_mongo_uri
generate_mongo_uri(cfg) ==
    [cfg EXCEPT !.MONGO_URI =
        Some(<<"mongodb://", cfg.MONGO_HOST, ":", cfg.MONGO_PORT, "/", Formatted(cfg.MONGO_DB)>>
             \o (IF cfg.MONGO_REPLICA_SET.has /\ cfg.MONGO_REPLICA_SET.v # ""
                 THEN <<"?replicaSet=", cfg.MONGO_REPLICA_SET.v>> ELSE <<>>))]

\* The class body of Config (lines 63-74) followed by the module-level
\* Config.generate_mongo_uri() (line 192).
ImportConfig(dflt) == generate_mongo_uri(dflt)

set_mongo_db(cfg, database_name) ==
    generate_mongo_uri([cfg EXCEPT !.MONGO_DB = Some(database_name)])

set_mongo_host(cfg, host) ==
    IF host # "" THEN generate_mongo_uri([cfg EXCEPT !.MONGO_HOST = host]) ELSE cfg

set_mongo_port(cfg, port) ==
    IF port # 0 THEN generate_mongo_uri([cfg EXCEPT !.MONGO_PORT = port]) ELSE cfg

set_mongo_replica_set(cfg, replica_set) ==
    generate_mongo_uri([cfg EXCEPT !.MONGO_REPLICA_SET = replica_set])

\* Config.reload: each setting from the environment, else as it is.
reload(cfg, e) ==
    [MONGO_DB |-> getenvOptional(e, "MONGO_DB", cfg.MONGO_DB),
     MONGO_HOST |-> getenv(e, "MONGO_HOST", cfg.MONGO_HOST),
     MONGO_PORT |-> getenvPort(e, cfg.MONGO_PORT),
     MONGO_REPLICA_SET |-> getenvOptional(e, "MONGO_REPLICA_SET", cfg.MONGO_REPLICA_SET),
     MONGO_URI |-> getenvOptional(e, "MONGO_URI", cfg.MONGO_URI)]

\* Config.reset: setattr(cls, attr, value) for the upper-case attributes of
\* Defaults.
reset(cfg, dflt) ==
    [attr \in DOMAIN cfg |-> IF attr \in DOMAIN dflt THEN dflt[attr] ELSE cfg[attr]]

\* dotenv.load_dotenv(..., override=override): the variables of the file are
\* put into the environment, over the ones that are set only with override.
load_dotenv(e, file, override) ==
    [k \in DOMAIN e \cup DOMAIN file |->
        IF k \in DOMAIN file /\ (override \/ k \notin DOMAIN e) THEN file[k] ELSE e[k]]

(***************************************************************************)
(* The arguments callers pass.                                             *)
(***************************************************************************)
EmptyQuery == [k \in {} |-> 0]
Queries == {EmptyQuery, [a |-> 1]}

\* Well-formed tokens: those PAGINATED_QUERY builds for some document.
CursorTokens == {<<Sep>> \o ObjectIdStr(i) : i \in Ids}
TimeTokens == {isoformat(v) \o <<Sep>> \o ObjectIdStr(i) : v \in Dates, i \in Ids}

\* Malformed tokens: no separator, two separators, an identifier part that is
\* too short or not hexadecimal, a sort-value part that is not a date, and
\* the empty string.
MalformedTokens ==
    { ObjectIdStr(1),
      <<Sep, Sep>> \o ObjectIdStr(1),
      <<Sep, "1">>,
      <<"1", Sep, "z">> \o HexStr(1, IdWidth - 1),
      NoneStr \o <<Sep>> \o ObjectIdStr(1),
      <<>> }

Tokens == CursorTokens \cup TimeTokens \cup MalformedTokens

Pages == (-1)..MaxPage

Plain == [query : Queries, sort : PAGINATION_SORT_FIELDS, limit : Limits]

Request(p, after, before, page) ==
    [query |-> p.query, sort |-> p.sort, limit |-> p.limit,
     after |-> after, before |-> before, page |-> page]

\* A first call: no token, no page.
StartRequests == {Request(p, None, None, None) : p \in Plain}

\* A call with one token, with both tokens, or with a page number (alone or
\* next to a token).
TokenRequests ==
    {Request(p, Some(t), None, None) : p \in Plain, t \in Tokens}
    \cup {Request(p, None, Some(t), None) : p \in Plain, t \in Tokens}

BothRequests ==
    {Request(p, Some(t), Some(u), None) :
        p \in Plain, t \in {<<Sep>> \o ObjectIdStr(MaxId), isoformat(2) \o <<Sep>> \o ObjectIdStr(MaxId)},
        u \in {<<Sep>> \o ObjectIdStr(1), <<Sep, "z">>}}

PageRequests ==
    {Request(p, a, None, Some(n)) :
        p \in Plain, a \in {None, Some(<<Sep>> \o ObjectIdStr(MaxId))}, n \in Pages}

Requests == StartRequests \cup TokenRequests \cup BothRequests \cup PageRequests

(***************************************************************************)
(* The state machine: callers query and follow the returned tokens while   *)
(* other clients insert and delete documents.                              *)
(***************************************************************************)
\* No call of PAGINATED_QUERY was made yet.
PagerIdle ==
    /\ req = [query |-> EmptyQuery, sort |-> IdField, limit |-> 1,
              after |-> None, before |-> None, page |-> None]
    /\ resp = [status |-> "none"]
    /\ hist = <<>>
    /\ chain = "none"
    /\ static = TRUE
    /\ prior = <<>>
    /\ write = None
    /\ wrote = None
    /\ passed = EmptyQuery
    /\ kept = {}

\* No call of GET with an id_or_query was made yet.
ClassifierIdle ==
    /\ record = [value |-> PyDict(EmptyQuery), one |-> FALSE]
    /\ classified = [status |-> "none"]
    /\ lookup = [status |-> "none"]

\* GET(collection) returned a MongoListResponse on its cursor,
\* find({}).sort([("_id", 1)]), and no method of it was called yet.
ListIdle ==
    /\ mlr = Instance(TRUE, <<>>)
    /\ lst = None
    /\ out = [op |-> "none"]

\* No GET, POST, DELETE or ADD_FIELD call was made yet.
ClientIdle ==
    /\ call = [op |-> "none"]
    /\ ret = [status |-> "none"]
    /\ trip = [stage |-> "none"]
    /\ shared = [k \in {} |-> 0]

\* cervmongo was imported in a process whose environment sets none of the
\* variables, and no method of Config was called yet.
ConfigIdle ==
    /\ env = NoEnv
    /\ defaults = Defaults(env)
    /\ config = ImportConfig(defaults)
    /\ atImport = config
    /\ did = "import"

Init ==
    /\ coll \in Collections
    /\ PagerIdle
    /\ ClassifierIdle
    /\ ListIdle
    /\ ClientIdle
    /\ ConfigIdle

\* A call of PAGINATED_QUERY by a caller that holds no earlier page.  What it
\* returns depends on the collection and on rq alone, so the call is taken
\* from the state after construction, for every collection.
Query(rq) ==
    /\ resp.status = "none"
    /\ req' = rq
    /\ resp' \in PAGINATED_QUERY(coll, rq)
    /\ hist' = IF Ok(resp') THEN <<resp'.data>> ELSE <<>>
    /\ chain' = IF Truthy(rq.after) \/ Truthy(rq.before) \/ rq.page.has
                THEN "other" ELSE "fwd"
    /\ passed' = PassedAfter(rq, resp')
    /\ kept' = coll
    /\ UNCHANGED <<coll, static, prior, write, wrote, classVars, listVars, clientVars, configVars>>

HasAfter(r) ==
    /\ Ok(r)
    /\ r.pagination_method \in {"cursor", "time"}
    /\ r.cursors.after # None

\* The caller passes the last response's cursors.after back, with the same
\* query mapping, sort and limit.
RedeemAfter ==
    /\ HasAfter(resp)
    /\ req' = [req EXCEPT !.query = passed, !.after = resp.cursors.after,
                          !.before = None, !.page = None]
    /\ resp' \in PAGINATED_QUERY(coll, req')
    /\ hist' = IF Ok(resp') THEN Append(hist, resp'.data) ELSE hist
    /\ prior' = resp.data
    /\ wrote' = write
    /\ write' = None
    /\ passed' = PassedAfter(req', resp')
    /\ UNCHANGED <<coll, chain, static, kept, classVars, listVars, clientVars, configVars>>

\* Another client inserts or deletes a document while a caller holds a page
\* whose token it has not redeemed yet (one write between two calls).
Insert(d) ==
    /\ HasAfter(resp)
    /\ write = None
    /\ \A e \in coll : e._id # d._id
    /\ coll' = coll \cup {d}
    /\ static' = FALSE
    /\ write' = Some([op |-> "insert", doc |-> d])
    /\ UNCHANGED <<req, resp, hist, chain, prior, wrote, passed, kept, classVars, listVars, clientVars, configVars>>

Delete(d) ==
    /\ HasAfter(resp)
    /\ write = None
    /\ d \in coll
    /\ coll' = coll \ {d}
    /\ static' = FALSE
    /\ write' = Some([op |-> "delete", doc |-> d])
    /\ kept' = kept \ {d}
    /\ UNCHANGED <<req, resp, hist, chain, prior, wrote, passed, classVars, listVars, clientVars, configVars>>

\* Callers that page forward through a collection other clients write to.
Next ==
    \/ \E rq \in StartRequests : Query(rq)
    \/ RedeemAfter
    \/ \E d \in Docs : d.a = d._id % 2 /\ Insert(d)
    \/ \E d \in coll : Delete(d)

Spec == Init /\ [][Next]_vars

\* Single calls, with every kind of argument.
NextCall == \E rq \in Requests : Query(rq)

SpecCall == Init /\ [][NextCall]_vars

\* A caller that paged forward through a collection nobody writes to goes
\* back: it passes the last response's cursors.before, with the same query
\* mapping, sort and limit.  hist keeps the pages of the way forward.
HasBefore(r) ==
    /\ Ok(r)
    /\ r.pagination_method \in {"cursor", "time"}
    /\ r.cursors.before # None

Forward == chain = "fwd" /\ RedeemAfter

RedeemBefore ==
    /\ chain = "fwd"
    /\ HasBefore(resp)
    /\ req' = [req EXCEPT !.query = passed, !.after = None,
                          !.before = resp.cursors.before, !.page = None]
    /\ resp' \in PAGINATED_QUERY(coll, req')
    /\ chain' = "back"
    /\ prior' = resp.data
    /\ passed' = PassedAfter(req', resp')
    /\ UNCHANGED <<coll, hist, static, write, wrote, kept, classVars, listVars, clientVars,
                   configVars>>

NextBack ==
    \/ \E rq \in StartRequests : Query(rq)
    \/ Forward
    \/ RedeemBefore

SpecBack == Init /\ [][NextBack]_vars

\* Other clients insert and delete documents at any time, any number of
\* them between two calls of the caller that pages forward.
InsertAny(d) ==
    /\ HasAfter(resp)
    /\ \A e \in coll : e._id # d._id
    /\ coll' = coll \cup {d}
    /\ static' = FALSE
    /\ write' = Some([op |-> "insert", doc |-> d])
    /\ UNCHANGED <<req, resp, hist, chain, prior, wrote, passed, kept, classVars, listVars,
                   clientVars, configVars>>

DeleteAny(d) ==
    /\ HasAfter(resp)
    /\ d \in coll
    /\ coll' = coll \ {d}
    /\ static' = FALSE
    /\ write' = Some([op |-> "delete", doc |-> d])
    /\ kept' = kept \ {d}
    /\ UNCHANGED <<req, resp, hist, chain, prior, wrote, passed, classVars, listVars,
                   clientVars, configVars>>

\* The callers page by identifier, in which the dates play no part: the
\* documents inserted hold none.
NextWrites ==
    \/ \E rq \in {r \in StartRequests : r.sort = IdField} : Query(rq)
    \/ RedeemAfter
    \/ \E d \in Docs : d.a = d._id % 2 /\ ~HasField(d, DateField) /\ InsertAny(d)
    \/ \E d \in coll : DeleteAny(d)

SpecWrites == Init /\ [][NextWrites]_vars

(***************************************************************************)
(* GET called with an id_or_query of any kind.                             *)
(***************************************************************************)
WordChars == {"0", "1", "f", "z"}

\* Every string of at most IdWidth + 1 of these characters: the valid id
\* encodings (IdWidth hexadecimal characters) and words that are none.
Words == UNION {[1..n -> WordChars] : n \in 0..(IdWidth + 1)}

\* Strings that hold "$oid": the extended JSON of an ObjectId (with and
\* without a blank after the colon), one of an invalid id, a truncated one
\* and the bare marker.
OidLiterals ==
    { json_dump(OidKey, ObjectIdStr(1)),
      <<"{", Quote>> \o OidKey \o <<Quote, ":", Quote>> \o ObjectIdStr(2) \o <<Quote, "}">>,
      json_dump(OidKey, <<"z">>),
      SubSeq(json_dump(OidKey, ObjectIdStr(1)), 1, Len(OidKey) + 5),
      OidKey }

Mappings ==
    { "$oid" :> PyStr(ObjectIdStr(1)),
      "$oid" :> PyStr(<<"z">>),
      "$regex" :> PyStr(<<"^", "a">>),
      "age" :> PyDict("$gt" :> PyInt(30)),
      "a" :> PyInt(1),
      EmptyQuery }

Records ==
    {PyObjectId(i) : i \in Ids}
    \cup {PyStr(w) : w \in Words \cup OidLiterals}
    \cup {PyDict(m) : m \in Mappings}

InitRecord ==
    /\ coll = {}
    /\ PagerIdle
    /\ ClassifierIdle
    /\ ListIdle
    /\ ClientIdle
    /\ ConfigIdle

\* GET(collection, v, one=one), up to the query it goes on with.
GETRecord(v, one) ==
    /\ classified.status = "none"
    /\ record' = [value |-> v, one |-> one]
    /\ classified' = process_record_id_type(v)
    /\ lookup' = GETLookup(classified', one)
    /\ UNCHANGED <<pagerVars, listVars, clientVars, configVars>>

NextRecord == \E v \in Records, one \in BOOLEAN : GETRecord(v, one)

SpecRecord == InitRecord /\ [][NextRecord]_vars

(***************************************************************************)
(* Methods of the MongoListResponse GET returned, called in any order on a *)
(* collection nobody writes to.                                            *)
(***************************************************************************)
ListFields ==
    { KeyChars["_id"], KeyChars["b"],
      KeyChars["a"] \o <<Dot>> \o KeyChars["b"],
      KeyChars["a"] \o <<Dot, "0">> }

SortKeyFields ==
    { KeyChars["_id"], KeyChars["b"], KeyChars["a"] \o <<Dot>> \o KeyChars["b"] }

Directions == {ASCENDING, DESCENDING}

InitList ==
    /\ coll \in ListCollections
    /\ PagerIdle
    /\ ClassifierIdle
    /\ ListIdle
    /\ ClientIdle
    /\ ConfigIdle

CallCount ==
    /\ out' = [op |-> "count", on |-> "mlr", n |-> count(mlr, coll)]
    /\ mlr' = rewind(mlr)
    /\ UNCHANGED <<lst, pagerVars, classVars, clientVars, configVars>>

CallDistinct(field) ==
    /\ out' = [op |-> "distinct", on |-> "mlr", field |-> field,
               values |-> distinct(mlr, coll, field)]
    /\ mlr' = rewind(mlr)
    /\ UNCHANGED <<lst, pagerVars, classVars, clientVars, configVars>>

CallSort(dir, key) ==
    /\ \E r \in ListSort(mlr, dir, key) :
        /\ out' = [op |-> "sort", on |-> "mlr", key |-> key, dir |-> dir,
                   err |-> r.err, was |-> mlr.items]
        /\ mlr' = r.self
    /\ UNCHANGED <<lst, pagerVars, classVars, clientVars, configVars>>

CallRewind ==
    /\ out' = [op |-> "rewind", on |-> "mlr"]
    /\ mlr' = rewind(mlr)
    /\ UNCHANGED <<lst, pagerVars, classVars, clientVars, configVars>>

\* The caller takes the next document from the cursor that get() returns;
\* a closed cursor fetches no more.
CallNext ==
    /\ ~mlr.killed
    /\ mlr.pos < Cardinality(coll)
    /\ mlr' = [mlr EXCEPT !.pos = @ + 1]
    /\ out' = [op |-> "next", on |-> "mlr"]
    /\ UNCHANGED <<lst, pagerVars, classVars, clientVars, configVars>>

\* mlr.list(): the new instance is kept as lst; `from` is the number of
\* documents that had been retrieved from the cursor when it was called.
CallList ==
    /\ \E r \in ListList(mlr, coll) :
        /\ mlr' = r.self
        /\ lst' = Some(r.made)
        /\ out' = [op |-> "list", on |-> "mlr", items |-> r.made.items,
                   from |-> mlr.pos]
    /\ UNCHANGED <<pagerVars, classVars, clientVars, configVars>>

NextList ==
    \/ CallCount
    \/ \E field \in ListFields : CallDistinct(field)
    \/ \E dir \in Directions, key \in SortKeyFields : CallSort(dir, key)
    \/ CallRewind
    \/ CallNext
    \/ CallList

SpecList == InitList /\ [][NextList]_vars

(***************************************************************************)
(* Methods of a sequence-backed MongoListResponse.  What a method returns  *)
(* depends on the documents of the list, their order and `_sort` alone, so *)
(* each call is taken from a list that earlier list() and sort() calls can *)
(* have left: the documents of a collection in any order, either `_sort`.  *)
(***************************************************************************)
SequenceBacked(S) ==
    {[Instance(FALSE, o) EXCEPT !._sort = dir] :
        o \in {p \in [1..Cardinality(S) -> S] : \A d \in S : \E i \in DOMAIN p : p[i] = d},
        dir \in Directions}

InitSeq ==
    /\ coll \in ListCollections
    /\ PagerIdle
    /\ ClassifierIdle
    /\ mlr = Instance(TRUE, <<>>)
    /\ lst \in {Some(l) : l \in SequenceBacked(coll)}
    /\ out = [op |-> "none"]
    /\ ClientIdle
    /\ ConfigIdle

SeqCount ==
    /\ out.op = "none"
    /\ out' = [op |-> "count", on |-> "lst", n |-> count(lst.v, coll)]
    /\ lst' = Some(rewind(lst.v))
    /\ UNCHANGED <<mlr, pagerVars, classVars, clientVars, configVars>>

SeqDistinct(field) ==
    /\ out.op = "none"
    /\ out' = [op |-> "distinct", on |-> "lst", field |-> field,
               values |-> distinct(lst.v, coll, field)]
    /\ lst' = Some(rewind(lst.v))
    /\ UNCHANGED <<mlr, pagerVars, classVars, clientVars, configVars>>

SeqSort(dir, key) ==
    /\ out.op = "none"
    /\ \E r \in ListSort(lst.v, dir, key) :
        /\ out' = [op |-> "sort", on |-> "lst", key |-> key, dir |-> dir,
                   err |-> r.err, was |-> lst.v.items]
        /\ lst' = Some(r.self)
    /\ UNCHANGED <<mlr, pagerVars, classVars, clientVars, configVars>>

\* lst.list(), which returns lst itself.
SeqList ==
    /\ out.op = "none"
    /\ \E r \in ListList(lst.v, coll) :
        /\ lst' = Some(r.self)
        /\ out' = [op |-> "list", on |-> "lst", items |-> r.made.items, from |-> 0]
    /\ UNCHANGED <<mlr, pagerVars, classVars, clientVars, configVars>>

NextSeq ==
    \/ SeqCount
    \/ \E field \in ListFields : SeqDistinct(field)
    \/ \E dir \in Directions, key \in SortKeyFields : SeqSort(dir, key)
    \/ SeqList

SpecSeq == InitSeq /\ [][NextSeq]_vars

(***************************************************************************)
(* close() of both kinds of MongoListResponse, called any number of times  *)
(* between reads: mlr is backed by a cursor, lst by a sequence.            *)
(***************************************************************************)
\* mlr.close(); `was` is the instance before the call.
CloseCursor ==
    /\ mlr' = close(mlr)
    /\ out' = [op |-> "close", on |-> "mlr", was |-> mlr]
    /\ UNCHANGED <<lst, pagerVars, classVars, clientVars, configVars>>

\* lst.close()
CloseList ==
    /\ lst' = Some(close(lst.v))
    /\ out' = [op |-> "close", on |-> "lst", was |-> lst.v]
    /\ UNCHANGED <<mlr, pagerVars, classVars, clientVars, configVars>>

\* lst.count()
CountList ==
    /\ out' = [op |-> "count", on |-> "lst", n |-> count(lst.v, coll)]
    /\ lst' = Some(rewind(lst.v))
    /\ UNCHANGED <<mlr, pagerVars, classVars, clientVars, configVars>>

NextClose ==
    \/ CloseCursor
    \/ CloseList
    \/ CountList
    \/ CallCount
    \/ CallNext

SpecClose == InitSeq /\ [][NextClose]_vars

(***************************************************************************)
(* Calls of GET with every combination of count, distinct, one, limit,     *)
(* perpage, after and before, on a collection nobody writes to.            *)
(***************************************************************************)
GETArguments ==
    [query : Queries, key : {IdField}, sort : {ASCENDING},
     count : BOOLEAN, distinct : {None, Some("a")}, one : BOOLEAN,
     page : {None, Some(1)}, perpage : {0, 1},
     limit : {None} \cup {Some(n) : n \in Limits},
     after : {None, Some(<<Sep>> \o ObjectIdStr(2))},
     before : {None, Some(<<Sep>> \o ObjectIdStr(1))}]

\* A call by a caller that made none before: what GET returns depends on the
\* collection and on the arguments alone.
CallGET(a) ==
    /\ call.op = "none"
    /\ call' = [op |-> "GET", args |-> a]
    /\ ret' \in GET(coll, a)
    /\ UNCHANGED <<trip, shared, pagerVars, classVars, listVars, configVars>>

NextGET == \E a \in GETArguments : CallGET(a)

SpecGET == Init /\ [][NextGET]_vars

(***************************************************************************)
(* The round trip of test_collection_access through a CollectionClient, on *)
(* any collection: a document is posted, looked up by a filter on its      *)
(* field "a" with one=True, deleted by an identifier, and the collection   *)
(* is counted.                                                             *)
(***************************************************************************)
NewRecords == [a : {0, 1}] \cup [a : {0, 1}, created_datetime : Dates]

TripPOST(rec) ==
    /\ trip.stage = "none"
    /\ \E r \in POST(COLLECTION(coll), rec) :
        /\ coll' = r.coll
        /\ ret' = r.ret
        /\ trip' = [stage |-> "posted", before |-> coll,
                    doc |-> CHOOSE d \in r.coll : d._id = r.ret.id]
    /\ call' = [op |-> "POST", args |-> rec]
    /\ static' = FALSE
    /\ UNCHANGED <<req, resp, hist, chain, prior, write, wrote, passed, kept,
                   shared, classVars, listVars, configVars>>

TripGET ==
    /\ trip.stage = "posted"
    /\ call' = [op |-> "GET",
                args |-> [GETDefaults EXCEPT !.query = [a |-> trip.doc.a], !.one = TRUE]]
    /\ ret' \in GET(COLLECTION(coll), call'.args)
    /\ trip' = [trip EXCEPT !.stage = "got"] @@ [got |-> ret']
    /\ UNCHANGED <<shared, pagerVars, classVars, listVars, configVars>>

\* DELETE(doc_id) with the identifier of the posted document, as an ObjectId
\* or as the string of it, or with the identifier of another document.
TripDELETE(rec) ==
    /\ trip.stage = "got"
    /\ \E r \in DELETE(COLLECTION(coll), rec) :
        /\ coll' = r.coll
        /\ ret' = r.ret
    /\ call' = [op |-> "DELETE", args |-> rec]
    /\ trip' = [trip EXCEPT !.stage = "deleted"]
    /\ UNCHANGED <<req, resp, hist, chain, static, prior, write, wrote, passed, kept,
                   shared, classVars, listVars, configVars>>

TripCount ==
    /\ trip.stage = "deleted"
    /\ call' = [op |-> "GET", args |-> [GETDefaults EXCEPT !.count = TRUE]]
    /\ ret' \in GET(COLLECTION(coll), call'.args)
    /\ trip' = [trip EXCEPT !.stage = "counted"] @@ [deleted |-> ret]
    /\ UNCHANGED <<shared, pagerVars, classVars, listVars, configVars>>

NextTrip ==
    \/ \E rec \in NewRecords : TripPOST(rec)
    \/ TripGET
    \/ \E i \in Ids : TripDELETE(PyObjectId(i)) \/ TripDELETE(PyStr(ObjectIdStr(i)))
    \/ TripCount

SpecTrip == Init /\ [][NextTrip]_vars

(***************************************************************************)
(* Calls of ADD_FIELD, one after the other, with a query mapping of the    *)
(* caller's or with none.                                                  *)
(***************************************************************************)
NewFields == {"b", "c"}

AddFieldQueries == {[k \in {} |-> 0], [a |-> Equals(1)]}

\* ADD_FIELD(collection, field, value, data=data, query=q): `before` keeps
\* the collection and q as they were when the call was made.
CallADD_FIELD(field, value, data, q) ==
    /\ call' = [op |-> "ADD_FIELD", field |-> field, value |-> value, data |-> data,
                query |-> q, before |-> coll]
    /\ coll' = ADD_FIELD(coll, field, value, data, q).done.coll
    /\ ret' = IF ADD_FIELD(coll, field, value, data, q).done.err = ""
              THEN [status |-> "ok"]
              ELSE Raised(ADD_FIELD(coll, field, value, data, q).done.err)
    /\ UNCHANGED <<trip, shared, req, resp, hist, chain, static, prior, write, wrote,
                   passed, kept, classVars, listVars, configVars>>

\* ADD_FIELD(collection, field, value, data=data): the query is the default.
CallADD_FIELDDefault(field, value, data) ==
    /\ call' = [op |-> "ADD_FIELD", field |-> field, value |-> value, data |-> data,
                query |-> [k \in {} |-> 0], before |-> coll]
    /\ coll' = ADD_FIELD(coll, field, value, data, shared).done.coll
    /\ shared' = ADD_FIELD(coll, field, value, data, shared).query
    /\ ret' = IF ADD_FIELD(coll, field, value, data, shared).done.err = ""
              THEN [status |-> "ok"]
              ELSE Raised(ADD_FIELD(coll, field, value, data, shared).done.err)
    /\ UNCHANGED <<trip, req, resp, hist, chain, static, prior, write, wrote,
                   passed, kept, classVars, listVars, configVars>>

NextAddField ==
    \E field \in NewFields, value \in {1, 2}, data \in {None, Some("a")} :
        \/ \E q \in AddFieldQueries : CallADD_FIELD(field, value, data, q)
        \/ CallADD_FIELDDefault(field, value, data)

SpecAddField == Init /\ [][NextAddField]_vars

(***************************************************************************)
(* Calls of the methods of Config, in any order, in a process whose        *)
(* environment may set some of the variables when cervmongo is imported.   *)
(***************************************************************************)
Environments ==
    { NoEnv,
      [MONGO_DB |-> "envdb"],
      [MONGO_HOST |-> "envhost", MONGO_PORT |-> <<"8", "0">>],
      [MONGO_URI |-> <<"mongodb://", "envhost", ":", 80, "/", "envdb">>] }

DotenvFiles == {[MONGO_DB |-> "example_database_one"], [MONGO_REPLICA_SET |-> "rs0"]}

InitConfig ==
    /\ coll = {}
    /\ PagerIdle
    /\ ClassifierIdle
    /\ ListIdle
    /\ ClientIdle
    /\ env \in Environments
    /\ defaults = Defaults(env)
    /\ config = ImportConfig(defaults)
    /\ atImport = config
    /\ did = "import"

Called(method, cfg) ==
    /\ config' = cfg
    /\ did' = method
    /\ UNCHANGED <<env, defaults, atImport, pagerVars, classVars, listVars, clientVars>>

SetMongoDb(database_name) == Called("set_mongo_db", set_mongo_db(config, database_name))

SetMongoHost(host) == Called("set_mongo_host", set_mongo_host(config, host))

SetMongoPort(port) == Called("set_mongo_port", set_mongo_port(config, port))

SetMongoReplicaSet(replica_set) ==
    Called("set_mongo_replica_set", set_mongo_replica_set(config, replica_set))

Reload == Called("reload", reload(config, env))

\* reload_from_file / reload_from_stream: load_dotenv, then reload.
ReloadFromFile(file, override) ==
    /\ env' = load_dotenv(env, file, override)
    /\ config' = reload(config, env')
    /\ did' = "reload_from_file"
    /\ UNCHANGED <<defaults, atImport, pagerVars, classVars, listVars, clientVars>>

Reset == Called("reset", reset(config, defaults))

NextConfig ==
    \/ \E database_name \in {"example_database_one"} : SetMongoDb(database_name)
    \/ \E host \in {"", "db.example"} : SetMongoHost(host)
    \/ \E port \in {0, 27018} : SetMongoPort(port)
    \/ \E replica_set \in {None, Some("rs0")} : SetMongoReplicaSet(replica_set)
    \/ Reload
    \/ \E file \in DotenvFiles, override \in BOOLEAN : ReloadFromFile(file, override)
    \/ Reset

SpecConfig == InitConfig /\ [][NextConfig]_vars

(***************************************************************************)
(* Definitions the properties use.                                         *)
(***************************************************************************)

\* The documents of S in the order (key descending, _id descending).
RECURSIVE Ordered(_, _)
Ordered(S, key) ==
    IF S = {} THEN <<>>
    ELSE LET d == CHOOSE x \in S : \A e \in S :
                      \/ SortRank(e, key) < SortRank(x, key)
                      \/ SortRank(e, key) = SortRank(x, key) /\ e._id <= x._id
         IN  <<d>> \o Ordered(S \ {d}, key)

\* The pages of a chain, concatenated.
RECURSIVE Flatten(_)
Flatten(pages) ==
    IF pages = <<>> THEN <<>> ELSE Head(pages) \o Flatten(Tail(pages))

Range(seq) == {seq[i] : i \in 1..Len(seq)}

\* The documents the base filter of the request selects.
Selected == {d \in coll : MatchFilter(d, req.query)}

\* The sort field is usable on the collection: it is the identifier, or a
\* date field every document holds.
SortFieldOnAll == \A d \in coll : HasField(d, req.sort)

\* The last call was made in cursor or time mode.
ByToken == Ok(resp) /\ resp.pagination_method \in {"cursor", "time"}

\* The last call redeemed the `after` token of the page before it, and the
\* collection is as that call found it.
Redeemed == chain = "fwd" /\ Truthy(req.after) /\ write = None

\* A forward chain over a static collection that has reached its end.
ChainDone == chain = "fwd" /\ static /\ ByToken /\ resp.cursors.after = None

(***************************************************************************)
(* C1: on a static collection, the pages of a forward chain (first call    *)
(* without token, then each cursors.after redeemed until it is null),      *)
(* concatenated, are the documents of the filter in the order (sort key    *)
(* descending, _id descending), in cursor mode and in time mode.           *)
(***************************************************************************)
C1_ChainIsTheSortedQuery ==
    (ChainDone /\ SortFieldOnAll) => Flatten(hist) = Ordered(Selected, req.sort)

\* The same, in cursor mode alone.
C1_CursorChainIsTheSortedQuery ==
    (ChainDone /\ req.sort = IdField) => Flatten(hist) = Ordered(Selected, req.sort)

(***************************************************************************)
(* C2: for GET with limit and one token that decodes to (v, b), the        *)
(* effective filter selects exactly the documents of the base filter with  *)
(* K < v, or K = v and _id < b, when the sort key K is not the identifier, *)
(* and exactly those with _id < b when it is; with a `before` token the    *)
(* same with > in place of <.                                              *)
(***************************************************************************)
OneToken ==
    /\ ~PageTruthy(req.page)
    /\ Truthy(req.after) # Truthy(req.before)

TheToken == IF Truthy(req.after) THEN req.after.v ELSE req.before.v

\* d lies strictly beyond the boundary (v, b) in the direction of the token.
Beyond(d, t) ==
    LET less(x, y) == IF Truthy(req.after) THEN x < y ELSE x > y
    IN  IF req.sort = IdField THEN less(d._id, t._id_value.v)
        ELSE /\ HasField(d, req.sort)
             /\ \/ less(d[req.sort], t.sort_value.v.v)
                \/ d[req.sort] = t.sort_value.v.v /\ less(d._id, t._id_value.v)

C2_EffectiveFilter ==
    (OneToken /\ DecodeToken(TheToken, req.sort).err = "")
    => find(coll, GETLimitQuery(req.query, req.sort, req.after, req.before).query)
       = {d \in Selected : Beyond(d, DecodeToken(TheToken, req.sort))}

\* The same, when the sort key is the identifier.
C2_EffectiveFilterById ==
    (OneToken /\ req.sort = IdField /\ DecodeToken(TheToken, req.sort).err = "")
    => find(coll, GETLimitQuery(req.query, req.sort, req.after, req.before).query)
       = {d \in Selected : Beyond(d, DecodeToken(TheToken, req.sort))}

(***************************************************************************)
(* C3: on a static collection every non-null token PAGINATED_QUERY returns *)
(* in cursor or time mode is live: redeeming cursors.after with the same   *)
(* filter, sort and limit yields at least one document, for the token of   *)
(* the first page as for those of later pages.                             *)
(***************************************************************************)
C3_ReturnedTokenIsLive ==
    (Redeemed /\ static) => (Ok(resp) /\ resp.data # <<>>)

\* The same for the tokens of the pages after the first, in cursor mode.
C3_LaterCursorTokenIsLive ==
    (Redeemed /\ static /\ req.sort = IdField /\ Len(hist) > 2)
    => (Ok(resp) /\ resp.data # <<>>)

(***************************************************************************)
(* C4: if the last document of a page is deleted after the page was        *)
(* returned and before its `after` token is redeemed, the redeeming call   *)
(* does not raise, returns no document of that page, and returns either no *)
(* documents or the next valid page: the first `limit` documents that      *)
(* follow the deleted one in the order (sort key, _id) descending.         *)
(***************************************************************************)
LastOfPriorDeleted ==
    /\ Redeemed
    /\ prior # <<>>
    /\ wrote = Some([op |-> "delete", doc |-> prior[Len(prior)]])

Follows(d, b, key) ==
    \/ SortRank(d, key) < SortRank(b, key)
    \/ SortRank(d, key) = SortRank(b, key) /\ d._id < b._id

NextValidPage ==
    LET rest == Ordered({d \in Selected : Follows(d, prior[Len(prior)], req.sort)}, req.sort)
    IN  SubSeq(rest, 1, IF Len(rest) < req.limit THEN Len(rest) ELSE req.limit)

C4_RedeemAfterDelete ==
    (LastOfPriorDeleted /\ \A d \in coll \cup Range(prior) : HasField(d, req.sort))
    => /\ Ok(resp)
       /\ Range(resp.data) \cap Range(prior) = {}
       /\ resp.data = <<>> \/ resp.data = NextValidPage

\* The same, in cursor mode.
C4_CursorRedeemAfterDelete ==
    (LastOfPriorDeleted /\ req.sort = IdField)
    => /\ Ok(resp)
       /\ Range(resp.data) \cap Range(prior) = {}
       /\ resp.data = <<>> \/ resp.data = NextValidPage

\* In both modes the redeeming call does not raise and repeats no document.
C4_NoRaiseNoRepeat ==
    (LastOfPriorDeleted /\ \A d \in coll \cup Range(prior) : HasField(d, req.sort))
    => /\ Ok(resp)
       /\ Range(resp.data) \cap Range(prior) = {}

(***************************************************************************)
(* C5: in offset mode cursors.next_page is null when page * limit >= total *)
(* and page + 1 otherwise.                                                 *)
(***************************************************************************)
Offset == Ok(resp) /\ resp.pagination_method = "offset"

C5_NextPage ==
    Offset => resp.cursors.next_page =
                  IF req.page.v * req.limit >= resp.total THEN None
                  ELSE Some(req.page.v + 1)

(***************************************************************************)
(* C6: in cursor mode on a static collection of N matching documents with  *)
(* limit L, the k-th forward page holds the documents ranked (k-1)*L+1 ..  *)
(* min(k*L, N) by _id descending, in that order; cursors.after is non-null *)
(* when the page holds L documents and a further document remains, and     *)
(* null when the page holds fewer than L documents.                        *)
(***************************************************************************)
CursorChain == chain = "fwd" /\ static /\ Ok(resp) /\ req.sort = IdField

Ranked(k) ==
    LET all == Ordered(Selected, IdField)
        to == IF k * req.limit < Len(all) THEN k * req.limit ELSE Len(all)
    IN  SubSeq(all, (k - 1) * req.limit + 1, to)

C6_CursorPages ==
    CursorChain =>
        /\ \A k \in 1..Len(hist) : hist[k] = Ranked(k)
        /\ resp.data = hist[Len(hist)]
        /\ (resp.count = req.limit /\ Len(hist) * req.limit < Cardinality(Selected))
               => resp.cursors.after # None
        /\ resp.count < req.limit => resp.cursors.after = None

\* A later page of a forward chain has been returned after a full page of
\* more than one document, and it is the last one: its `after` is null.
C6_Witness ==
    /\ CursorChain
    /\ Len(hist) >= 2
    /\ resp.data # <<>>
    /\ resp.cursors.after = None
    /\ \E k \in 1..(Len(hist) - 1) : Len(hist[k]) = req.limit /\ req.limit > 1

(***************************************************************************)
(* C7: PAGINATED_QUERY called with both `after` and `before` is rejected   *)
(* with an error and returns no page.                                      *)
(***************************************************************************)
C7_BothTokensRejected ==
    (resp.status # "none" /\ Truthy(req.after) /\ Truthy(req.before)
        /\ ~req.page.has)
    => resp.status = "error"

(***************************************************************************)
(* C8: PAGINATED_QUERY called with a page below 1 (0 or negative) is       *)
(* rejected with an error and returns no page.                             *)
(***************************************************************************)
C8_PageBelowOneRejected ==
    (resp.status # "none" /\ req.page.has /\ req.page.v < 1)
    => resp.status = "error"

\* The same for the negative pages.
C8_NegativePageRejected ==
    (resp.status # "none" /\ req.page.has /\ req.page.v < 0)
    => resp.status = "error"

(***************************************************************************)
(* C9: redeeming a malformed token (no separator, more than one separator, *)
(* an identifier part that is no valid id, or, when the sort key is not    *)
(* the identifier, a sort-value part that is no date) makes the call fail  *)
(* with an error: no page is returned.                                     *)
(***************************************************************************)
Count(s, c) == Cardinality({i \in 1..Len(s) : s[i] = c})

AfterSep(s) ==
    SubSeq(s, (CHOOSE i \in 1..Len(s) : s[i] = Sep) + 1, Len(s))

BeforeSep(s) ==
    SubSeq(s, 1, (CHOOSE i \in 1..Len(s) : s[i] = Sep) - 1)

IsHexId(s) == Len(s) = IdWidth /\ \A i \in 1..Len(s) : \E j \in 1..16 : s[i] = HexChars[j]

IsDate(s) == Len(s) > 0 /\ \A i \in 1..Len(s) : \E j \in 1..10 : s[i] = DecChars[j]

Malformed(s, key) ==
    \/ Count(s, Sep) # 1
    \/ ~IsHexId(AfterSep(s))
    \/ key # IdField /\ ~IsDate(BeforeSep(s))

Decoded(d, key) ==
    [err |-> "",
     sort_value |-> IF key = IdField THEN None ELSE Some(DateValue(d[key])),
     _id_value |-> OidValue(d._id)]

C10_TokenRoundTrip ==
    (ByToken /\ resp.data # <<>>) =>
        LET first == resp.data[1]
            last == resp.data[Len(resp.data)]
        IN  /\ (resp.cursors.after # None /\ HasField(last, req.sort))
                   => DecodeToken(resp.cursors.after.v, req.sort) = Decoded(last, req.sort)
            /\ (resp.cursors.before # None /\ HasField(first, req.sort))
                   => DecodeToken(resp.cursors.before.v, req.sort) = Decoded(first, req.sort)

\* A page of dated documents has been returned in time mode with a `before`
\* token.
C10_Witness ==
    /\ ByToken
    /\ req.sort = DateField
    /\ resp.cursors.before # None
    /\ HasField(resp.data[1], DateField)
    /\ resp.data[1][DateField] # resp.data[1]._id

(***************************************************************************)
(* C11: in the data of every page returned in cursor or time mode, two     *)
(* documents with equal sort-key value appear in descending _id order,     *)
(* whatever order the store returns ties in.                               *)
(***************************************************************************)
SameSortValue(d, e, key) ==
    IF key = IdField THEN d._id = e._id
    ELSE HasField(d, key) /\ HasField(e, key) /\ d[key] = e[key]

C11_TiesByIdDescending ==
    (Ok(resp) /\ resp.pagination_method \in {"cursor", "time"}) =>
        \A i, j \in 1..Len(resp.data) :
            (i < j /\ SameSortValue(resp.data[i], resp.data[j], req.sort))
                => resp.data[i]._id > resp.data[j]._id

\* The part of C11 the code keeps: pages are in descending order of the sort
\* key (a missing sort field counting as the lowest value).
C11_SortKeyDescending ==
    (Ok(resp) /\ resp.pagination_method \in {"cursor", "time"}) =>
        \A i, j \in 1..Len(resp.data) :
            i < j => SortRank(resp.data[i], req.sort) >= SortRank(resp.data[j], req.sort)

(***************************************************************************)
(* C14: in every page returned, details.count = len(data), len(data) is at *)
(* most limit, and details.total is the number of documents that match the *)
(* filter alone, whatever limit, after, before or page is passed.          *)
(***************************************************************************)
MatchingFilter ==
    {d \in coll : \A k \in DOMAIN req.query : k \in DOMAIN d /\ d[k] = req.query[k]}

OffsetPage == Ok(resp) /\ resp.pagination_method = "offset"

C15_OffsetLinks ==
    /\ (req.page.has /\ req.page.v >= 1 /\ resp.status # "none") =>
           (resp.status = "error" \/ resp.pagination_method = "offset")
    /\ OffsetPage =>
        /\ (resp.next # None) <=> (resp.cursors.next_page # None)
        /\ resp.next # None =>
               /\ resp.next.v.param = "page"
               /\ resp.next.v.page = resp.cursors.next_page.v
        /\ (resp.previous # None) <=> (resp.cursors.prev_page # None)
        /\ resp.previous # None =>
               /\ resp.previous.v.param = "page"
               /\ resp.previous.v.page = resp.cursors.prev_page.v

\* The parts of C15 the code keeps: offset mode is selected by page >= 1,
\* prev_page is page - 1 for page > 1, and details.next is set exactly when
\* next_page is.
C15_OffsetSelectedAndNextPresent ==
    /\ (req.page.has /\ req.page.v >= 1 /\ Ok(resp)) => resp.pagination_method = "offset"
    /\ OffsetPage =>
        /\ (resp.next # None) <=> (resp.cursors.next_page # None)
        /\ resp.cursors.prev_page = IF req.page.v > 1 THEN Some(req.page.v - 1) ELSE None

(***************************************************************************)
(* C16: PAGINATED_QUERY and GET leave the query mapping the caller passed  *)
(* (or the shared default) as it was before the call, after any sequence   *)
(* of calls, with or without tokens.                                       *)
(***************************************************************************)
C16_CallerQueryKept ==
    resp.status # "none" => passed = req.query

\* A later page of a chain was returned for a token, its lookahead ran, and
\* the filter is not empty.
C16_Witness ==
    /\ Ok(resp)
    /\ Len(hist) >= 2
    /\ Truthy(req.after)
    /\ resp.data # <<>>
    /\ QueryTruthy(req.query)
    /\ passed = [a |-> 1]

(***************************************************************************)
(* C12: _process_record_id_type follows its rules: a value of the          *)
(* identifier type returns (value, true); a string that is a valid         *)
(* canonical id encoding returns (the decoded identifier, true); a mapping *)
(* with a "$oid" or "$regex" marker returns (its parsed native form,       *)
(* true); any other mapping returns (the value unchanged, false).          *)
(***************************************************************************)
Given == record.value

IsIdEncoding(v) == IsStr(v) /\ Len(v.str) = IdWidth /\ \A i \in 1..Len(v.str) : v.str[i] \in CharSet(HexChars)

\* The identifier a valid encoding stands for.
RECURSIVE HexNumber(_)
HexNumber(s) ==
    IF s = <<>> THEN 0
    ELSE 16 * HexNumber(SubSeq(s, 1, Len(s) - 1)) + CharValue(HexChars, s[Len(s)])

\* The native form of a mapping with a marker, when it has one.
HasNative(v) ==
    /\ IsDict(v)
    /\ \/ "$regex" \in DOMAIN v.dict /\ "$oid" \notin DOMAIN v.dict
       \/ "$oid" \in DOMAIN v.dict /\ IsIdEncoding(v.dict["$oid"])

Native(v) ==
    IF "$oid" \in DOMAIN v.dict THEN PyObjectId(HexNumber(v.dict["$oid"].str))
    ELSE PyRegex(v.dict["$regex"].str)

OtherRules ==
    /\ IsObjectId(Given) => classified = Classified(Given, TRUE)
    /\ HasNative(Given) => classified = Classified(Native(Given), TRUE)
    /\ (IsDict(Given) /\ "$oid" \notin DOMAIN Given.dict /\ "$regex" \notin DOMAIN Given.dict)
           => classified = Classified(Given, FALSE)

C13_NeverFailsFallsToFilter ==
    classified.status # "none" =>
        /\ classified.status = "ok"
        /\ (IsStr(Given) /\ ~IsIdEncoding(Given) /\ json_load(Given.str).err # "") =>
               /\ classified = Classified(Given, FALSE)
               /\ lookup.query = Given
               /\ lookup.one = record.one

\* The part of C13 the code keeps: a string without "$oid" that is no valid
\* id encoding does not raise and is returned unchanged.
C13_WordUnchanged ==
    (classified.status # "none" /\ IsStr(Given) /\ ~IsIdEncoding(Given)
        /\ ~Contains(Given.str, OidKey)) =>
            /\ classified.status = "ok"
            /\ classified.record = Given

(***************************************************************************)
(* C17: list() on a cursor-backed MongoListResponse returns a new          *)
(* sequence-backed instance that holds every document of the query from    *)
(* the first one, whatever count(), distinct(), sort() or rewind() calls   *)
(* (or reads of the cursor) preceded it, and leaves the original           *)
(* cursor-backed: a second list() returns the same documents.              *)
(***************************************************************************)
InCursorOrder(items, ordering) ==
    \A i, j \in 1..Len(items) :
        i < j => IF ordering.dir = DESCENDING
                 THEN StoreRank(items[i], ordering.key) >= StoreRank(items[j], ordering.key)
                 ELSE StoreRank(items[i], ordering.key) <= StoreRank(items[j], ordering.key)

C17_ListReadsFromTheStart ==
    (out.op = "list" /\ out.on = "mlr") =>
        /\ mlr._cursor
        /\ lst # None
        /\ ~lst.v._cursor
        /\ lst.v.items = out.items
        /\ Len(out.items) = Cardinality(coll)
        /\ Range(out.items) = coll
        /\ InCursorOrder(out.items, mlr.ordering)

\* list() was called on a cursor that a sort had reordered and that had been
\* read to its end (by an earlier list() or document by document).
C17_Witness ==
    /\ out.op = "list"
    /\ out.on = "mlr"
    /\ Cardinality(coll) >= 2
    /\ out.from = Cardinality(coll)
    /\ mlr.ordering.key # KeyChars["_id"]
    /\ Range(out.items) = coll

(***************************************************************************)
(* C18: count() and distinct(field) return the same on a cursor-backed     *)
(* instance and on the sequence-backed instance its list() returns, and    *)
(* distinct returns each value at most once in both modes, for dotted and  *)
(* non-dotted fields.                                                      *)
(***************************************************************************)
NoRepeat(l) == \A i, j \in 1..Len(l) : l[i] = l[j] => i = j

C18_ModesAgree ==
    (out.op = "list" /\ out.on = "mlr") =>
        /\ count(mlr, coll) = count(lst.v, coll)
        /\ \A field \in ListFields :
            /\ distinct(mlr, coll, field) = distinct(lst.v, coll, field)
            /\ NoRepeat(distinct(mlr, coll, field))
            /\ NoRepeat(distinct(lst.v, coll, field))

\* The part of C18 the code keeps: count() agrees, and so does distinct on
\* the identifier as long as no sort(-1) was called on the original.
C18_CountAgrees ==
    (out.op = "list" /\ out.on = "mlr") =>
        /\ count(mlr, coll) = count(lst.v, coll)
        /\ mlr._sort = ASCENDING =>
               distinct(mlr, coll, KeyChars["_id"]) = distinct(lst.v, coll, KeyChars["_id"])

(***************************************************************************)
(* C19: on a sequence-backed MongoListResponse, distinct("a.b") returns,   *)
(* as a set, exactly the values under key "a.b" of the flattened           *)
(* documents: a document without "a" contributes nothing (its top-level    *)
(* "b" is not picked up) and no error is raised.                           *)
(***************************************************************************)
DottedField == KeyChars["a"] \o <<Dot>> \o KeyChars["b"]

Flattened(items, field) ==
    {p[2] : p \in {q \in UNION {flatten_dict(items[i]) : i \in 1..Len(items)} : q[1] = field}}

C19_DistinctDottedIsFlattened ==
    (out.op = "distinct" /\ out.on = "lst" /\ out.field = DottedField) =>
        Range(out.values) = Flattened(lst.v.items, DottedField)

\* The part of C19 the code keeps: every value under "a.b" is returned, once.
C19_NestedValuesReturned ==
    (out.op = "distinct" /\ out.on = "lst" /\ out.field = DottedField) =>
        /\ Flattened(lst.v.items, DottedField) \subseteq Range(out.values)
        /\ NoRepeat(out.values)

(***************************************************************************)
(* C20: sort(sort, key) on a sequence-backed MongoListResponse orders the  *)
(* documents by the value at the (possibly dotted) key in the requested    *)
(* direction, keeps the previous relative order of documents with equal    *)
(* key values, and places every document that lacks the key after all      *)
(* documents that have it, for both directions.                            *)
(***************************************************************************)
Position(items, d) == CHOOSE i \in 1..Len(items) : items[i] = d

KeyAt(d, key) == PathValue(d, split(key, Dot))

SortedStable(items, was, dir, key) ==
    /\ Len(items) = Len(was)
    /\ Range(items) = Range(was)
    /\ \A i, j \in 1..Len(items) : i < j =>
        /\ KeyAt(items[j], key).has => KeyAt(items[i], key).has
        /\ (KeyAt(items[i], key).has /\ KeyAt(items[j], key).has) =>
               IF dir = DESCENDING THEN KeyAt(items[i], key).v >= KeyAt(items[j], key).v
               ELSE KeyAt(items[i], key).v <= KeyAt(items[j], key).v
        /\ KeyAt(items[i], key) = KeyAt(items[j], key) =>
               Position(was, items[i]) < Position(was, items[j])

C20_SortStableMissingLast ==
    (out.op = "sort" /\ out.on = "lst") =>
        /\ out.err = ""
        /\ SortedStable(lst.v.items, out.was, out.dir, out.key)

\* The part of C20 the code keeps: a list whose documents all hold the key is
\* sorted in the requested direction, stably.
C20_SortStableWhenKeyed ==
    (out.op = "sort" /\ out.on = "lst"
        /\ \A i \in 1..Len(out.was) : KeyAt(out.was[i], out.key).has) =>
            /\ out.err = ""
            /\ SortedStable(lst.v.items, out.was, out.dir, out.key)

(***************************************************************************)
(* C21: close() closes the cursor of a cursor-backed list and empties a    *)
(* sequence-backed one, whose count() is then 0; a close() of a list that  *)
(* is closed already changes nothing; and close() leaves the backing mode  *)
(* as it was.                                                              *)
(***************************************************************************)
Closed(self) == IF self._cursor THEN self.killed ELSE self.items = <<>>

JustClosed == IF out.on = "mlr" THEN mlr ELSE lst.v

C21_CloseReleasesIdempotent ==
    out.op = "close" =>
        /\ Closed(JustClosed)
        /\ JustClosed._cursor = out.was._cursor
        /\ ~JustClosed._cursor => count(JustClosed, coll) = 0
        /\ Closed(out.was) => JustClosed = out.was

\* A sequence that held documents has been closed twice, and so has the
\* cursor.
C21_Witness ==
    /\ out.op = "close"
    /\ out.on = "lst"
    /\ coll # {}
    /\ Closed(out.was)
    /\ mlr.killed

(***************************************************************************)
(* C22: the blocking and the non-blocking client agree: on the same        *)
(* argument _process_record_id_type gives the same (value, one) pair in    *)
(* both, and on the same collection and arguments PAGINATED_QUERY gives    *)
(* the same response in both.                                              *)
(***************************************************************************)
ClassifiersAgree ==
    classified.status # "none" => classified = aio_process_record_id_type(record.value)

PagersAgree ==
    resp.status # "none" /\ static =>
        resp \in aio_PAGINATED_QUERY(coll, req)

C22_VariantsAgree == ClassifiersAgree /\ PagersAgree

\* C22, the part that holds: every response of the blocking PAGINATED_QUERY
\* is one the non-blocking variant gives, and the other way round.
C22_PagersAgree ==
    resp.status # "none" => PAGINATED_QUERY(coll, req) = aio_PAGINATED_QUERY(coll, req)

(***************************************************************************)
(* C23: GET resolves count, distinct and one by the priority count >       *)
(* distinct > one: with count and distinct and/or one it returns the       *)
(* number of matching documents whatever limit, perpage, after and before  *)
(* are, and with distinct and one but no count it returns the distinct     *)
(* values.  (With a limit the number is taken of the limited query.)       *)
(***************************************************************************)
GETCalled == call.op = "GET" /\ ret.status = "ok"

CountAsked == call.args.count /\ (call.args.distinct.has \/ call.args.one)

DistinctAsked == ~call.args.count /\ call.args.distinct.has /\ call.args.one

C23_CountDistinctOne ==
    GETCalled =>
        /\ CountAsked =>
              /\ ret.kind = "count"
              /\ ret.n <= Cardinality(find(coll, call.args.query))
              /\ ~call.args.limit.has => ret.n = Cardinality(find(coll, call.args.query))
        /\ DistinctAsked =>
              /\ ret.kind = "distinct"
              /\ ret.values = {d.a : d \in find(coll, call.args.query)}

\* C23, the part that holds: without a limit count comes first, with a limit
\* it comes first when neither distinct nor perpage is given, and distinct
\* always comes before one.
C23_PriorityWithoutLimit ==
    GETCalled =>
        /\ CountAsked /\ ~call.args.limit.has =>
              ret = Number(Cardinality(find(coll, call.args.query)))
        /\ CountAsked /\ call.args.limit.has /\ ~call.args.distinct.has
                      /\ call.args.perpage = 0 =>
              ret.kind = "count"
        /\ DistinctAsked =>
              ret = Values({d.a : d \in find(coll, call.args.query)})

(***************************************************************************)
(* C24: after POST of a document, GET with a filter on a field of it that  *)
(* selects it alone and one=True returns the document with the _id the     *)
(* insert assigned; DELETE with that _id removes that document and no      *)
(* other, and GET(count=True) then returns the count from before the POST. *)
(***************************************************************************)
DeletedIt == call.op = "DELETE" /\ call.args = PyObjectId(trip.doc._id)

AddFieldReturned == call.op = "ADD_FIELD" /\ ret.status = "ok"

Added(d) ==
    [k \in DOMAIN d \cup {call.field} |->
        IF k # call.field THEN d[k]
        ELSE IF call.data.has THEN d[call.data.v] ELSE call.value]

C25_AddFieldAdds ==
    AddFieldReturned =>
        \A d \in call.before :
            IF HasField(d, call.field) THEN d \in coll
            ELSE d \in findWhere(call.before, call.query) => Added(d) \in coll

\* C25, the part that holds: the records that had the field are unchanged.
C25_HoldersUnchanged ==
    AddFieldReturned =>
        \A d \in call.before : HasField(d, call.field) => d \in coll

(***************************************************************************)
(* C26: Config.reset() gives every upper-case setting of Config,           *)
(* MONGO_URI too, the value it had when the import of cervmongo was over,  *)
(* whatever calls of set_mongo_db, set_mongo_host, set_mongo_port,         *)
(* set_mongo_replica_set and reload came before.                           *)
(***************************************************************************)
C26_ResetRestoresImport == did = "reset" => config = atImport

\* C26, the part that holds: every setting but MONGO_URI is as it was after
\* the import, and MONGO_URI is what the environment gave at import.
C26_ResetRestoresDefaults ==
    did = "reset" =>
        /\ \A attr \in DOMAIN config \ {"MONGO_URI"} : config[attr] = atImport[attr]
        /\ config.MONGO_URI = defaults.MONGO_URI

(***************************************************************************)
(* C27: on a collection nobody writes to, in cursor mode, redeeming the    *)
(* before token of page k (k >= 2, reached by redeeming after tokens) with *)
(* the same filter and limit returns page k-1: the `limit` documents just  *)
(* above the boundary document in sort order.                              *)
(***************************************************************************)
WentBack == chain = "back" /\ Ok(resp) /\ req.sort = IdField

C27_BackIsPreviousPage ==
    WentBack => resp.data = hist[Len(hist) - 1]

\* C27, what the call returns: the first `limit` documents of the whole
\* result, which are page k-1 when k = 2.
C27_BackIsFirstPage ==
    WentBack => resp.data = hist[1]

(***************************************************************************)
(* C28: whatever inserts and deletes come between the calls of a forward   *)
(* chain in cursor mode, no document is returned in two pages and the _id  *)
(* of the concatenated pages strictly descend; and when the chain is over, *)
(* every document that was in the collection during the whole chain,       *)
(* matches the filter and has an _id below that of the first document of   *)
(* the first page was returned once.                                       *)
(***************************************************************************)
CursorForward == chain = "fwd" /\ req.sort = IdField

Returned == Flatten(hist)

ChainOver == Ok(resp) /\ resp.cursors.after = None

C28_ConsistentUnderWrites ==
    CursorForward =>
        /\ \A i, j \in 1..Len(Returned) : i < j => Returned[i]._id > Returned[j]._id
        /\ ChainOver /\ Returned # <<>> =>
              \A d \in kept :
                  MatchFilter(d, req.query) /\ d._id < Returned[1]._id =>
                      Cardinality({i \in 1..Len(Returned) : Returned[i] = d}) = 1

\* A chain of three calls or more is over on a collection that was written
\* to; a returned document was inserted or deleted on the way, and a
\* document below the first one was there all the time.
C28_Witness ==
    /\ CursorForward
    /\ ChainOver
    /\ ~static
    /\ Len(hist) >= 2
    /\ \E i \in 2..Len(Returned) : Returned[i] \notin kept
    /\ \E d \in kept : d._id < Returned[1]._id /\ MatchFilter(d, req.query)

(***************************************************************************)
(* C29: every non-null after or before token PAGINATED_QUERY returns is    *)
(* redeemable: passed back with the same sort key it does not fail in the  *)
(* token decoding of GET, in cursor mode and in time mode, also when the   *)
(* boundary document of the page lacks the sort field (no token            *)
(* "None_<id>" is emitted).                                                *)
(***************************************************************************)
Decodes(tok, key) == tok # None => DecodeToken(tok.v, key).err = ""

C29_TokensRedeemable ==
    ByToken =>
        /\ Decodes(resp.cursors.after, req.sort)
        /\ Decodes(resp.cursors.before, req.sort)

\* The part of C29 the code keeps: the tokens of cursor mode decode, and so do
\* those of time mode when the first and the last document of the page hold
\* the sort field.
BoundariesHoldSortField ==
    /\ resp.data # <<>>
    /\ HasField(resp.data[1], req.sort)
    /\ HasField(resp.data[Len(resp.data)], req.sort)

C29_TokensOfDatedBoundariesRedeemable ==
    (ByToken /\ (req.sort = IdField \/ BoundariesHoldSortField)) =>
        /\ Decodes(resp.cursors.after, req.sort)
        /\ Decodes(resp.cursors.before, req.sort)

(***************************************************************************)
(* C30: forward pagination terminates.  On a static collection with N      *)
(* documents matching the filter, for every sort key and every limit >= 1, *)
(* the chain of calls that starts without a token and redeems each         *)
(* returned after token reaches a response whose cursors.after is null     *)
(* after at most ceil(N/limit) + 1 calls, and every page before the last   *)
(* one is non-empty.                                                       *)
(***************************************************************************)
MostCalls == ((Cardinality(Selected) + req.limit - 1) \div req.limit) + 1

ForwardOnStatic == chain = "fwd" /\ static

C30_ForwardTerminates ==
    ForwardOnStatic =>
        /\ Ok(resp)
        /\ Len(hist) <= MostCalls
        /\ Len(hist) = MostCalls => resp.cursors.after = None
        /\ \A i \in 1..(Len(hist) - 1) : hist[i] # <<>>

\* The part of C30 the code keeps: the chain ends within the bound when the
\* sort field is the identifier or a date every document holds.
C30_ForwardTerminatesOnSortable ==
    (ForwardOnStatic /\ SortFieldOnAll) =>
        /\ Ok(resp)
        /\ Len(hist) <= MostCalls
        /\ Len(hist) = MostCalls => resp.cursors.after = None
        /\ \A i \in 1..(Len(hist) - 1) : hist[i] # <<>>

\* A chain of that kind that took all the calls the bound allows.
C30_LongestChain ==
    /\ ForwardOnStatic
    /\ SortFieldOnAll
    /\ Len(hist) = MostCalls
    /\ Len(hist) >= 2

====
